---- MODULE Spec2Model ----
(***************************************************************************)
(* Concert calendar aggregation pipeline.                                  *)
(*                                                                         *)
(*   src/src/main.py        run(): cache, adapters, deduplicate, output    *)
(*   src/src/normalize.py   deduplicate, _artists_match, _pick_best        *)
(*   src/scripts/main.py    run(): adapter loop, filter, dedup, format     *)
(*                                                                         *)
(* Python strings are sequences of one-character strings, so that          *)
(* lower(), strip(), the regular expressions, `in' and the comparison of   *)
(* strings are computed character by character as the code computes them.  *)
(* An Optional[str] is a sequence of at most one string: <<>> is None.     *)
(* Calendar dates are day numbers.                                         *)
(***************************************************************************)
EXTENDS Integers, Sequences, FiniteSets, TLC

VARIABLES
    \* one execution of src/src/main.run
    pc,                   \* the section of run the execution is at
    dry_run,              \* the argument of run
    today,                \* date.today(), a day number
    cache_file,           \* the content of docs/source_cache.json
    files,                \* docs/index.html, docs/log.json, docs/build_time.txt
    cache,                \* the cache dict
    all_source_results,   \* List[SourceResult]
    all_events,           \* List[Event]
    venue_i,              \* the position of the venue loop in VENUES
    deduped,              \* deduplicate(all_events)
    calls,                \* history: the adapter calls made, in order
    from_cache,           \* history: the sources whose result came from the cache
    error,                \* the exception the execution ended with, "" if none
    runs,                 \* history: the earlier executions sharing the cache file
    \* a call of src/src/normalize.deduplicate
    dd_events,            \* the argument: a list of Event
    dd_result,            \* the list it returned
    dd_done,              \* whether it has returned
    \* one execution of src/scripts/main.run
    s_pc,                 \* the section of run the execution is at
    fetch_i,              \* the position of the fetch loop in sources
    invoked,              \* history: the names of the adapters called, in order
    s_all_events,         \* all_events
    source_status,        \* source_status
    music_events,         \* filter_music_events(all_events)
    unique_events,        \* deduplicate_events(music_events)
    events_by_date,       \* format_events_by_date(unique_events, tomorrow, end_date)
    outputs,              \* docs/index.html and docs/status.json
    \* a call of one of the pure functions of the repository
    fn_call,              \* the function called and its arguments
    fn_result,            \* what it returned
    fn_done               \* whether it has returned

mainVars == <<pc, dry_run, today, cache_file, files, cache, all_source_results,
              all_events, venue_i, deduped, calls, from_cache, error, runs>>
dedupVars == <<dd_events, dd_result, dd_done>>
scriptsVars == <<s_pc, fetch_i, invoked, s_all_events, source_status, music_events,
                 unique_events, events_by_date, outputs>>
callVars == <<fn_call, fn_result, fn_done>>
otherVars == <<dedupVars, scriptsVars, callVars>>
vars == <<mainVars, dedupVars, scriptsVars, callVars>>

\* ------------------------------------------------------------------------
\* Python str primitives
\* ------------------------------------------------------------------------

\* The printable ASCII characters in code point order, from 32 (space); the
\* double quote, the backslash and the backtick are written as names.
Ascii == <<" ","!","DQUOTE","#","$","%","&","'","(",")","*","+",",","-",".","/","0","1","2","3","4","5","6","7","8","9",":",";","<","=",">","?","@","A","B","C","D","E","F","G","H","I","J","K","L","M","N","O","P","Q","R","S","T","U","V","W","X","Y","Z","[","BACKSLASH","]","^","_","BACKTICK","a","b","c","d","e","f","g","h","i","j","k","l","m","n","o","p","q","r","s","t","u","v","w","x","y","z","{","|","}","~">>

\* the code point of every character of the table
CodePoint ==
    [c \in {Ascii[i] : i \in 1..Len(Ascii)} |-> 31 + (CHOOSE i \in 1..Len(Ascii) : Ascii[i] = c)]
    @@ ("é" :> 233)

\* ord(c)
Ord(c) == CodePoint[c]

IsUpper(c) == Ord(c) >= 65 /\ Ord(c) <= 90
IsLower(c) == Ord(c) >= 97 /\ Ord(c) <= 122
IsDigit(c) == Ord(c) >= 48 /\ Ord(c) <= 57

\* \s of the re module, and the characters str.strip() removes
IsSpace(c) == c = " "

\* \w of the re module
IsWord(c) == IsUpper(c) \/ IsLower(c) \/ IsDigit(c) \/ c = "_" \/ c = "é"

\* str.lower() on one character
LowerChar(c) == IF IsUpper(c) THEN Ascii[Ord(c) + 32 - 31] ELSE c

\* str.lower()
Lower(s) == [i \in 1..Len(s) |-> LowerChar(s[i])]

RECURSIVE LStrip(_)
\* str.lstrip()
LStrip(s) == IF s # <<>> /\ IsSpace(s[1]) THEN LStrip(Tail(s)) ELSE s

RECURSIVE RStrip(_)
\* str.rstrip()
RStrip(s) == IF s # <<>> /\ IsSpace(s[Len(s)]) THEN RStrip(SubSeq(s, 1, Len(s) - 1)) ELSE s

\* str.strip()
Strip(s) == RStrip(LStrip(s))

\* s.startswith(p)
StartsWith(s, p) == Len(p) <= Len(s) /\ SubSeq(s, 1, Len(p)) = p

\* s.endswith(p)
EndsWith(s, p) == Len(p) <= Len(s) /\ SubSeq(s, Len(s) - Len(p) + 1, Len(s)) = p

\* p in s
Contains(s, p) == \E i \in 1..(Len(s) - Len(p) + 1) : SubSeq(s, i, i + Len(p) - 1) = p

\* the code points of a str
Ords(s) == [i \in 1..Len(s) |-> Ord(s[i])]

RECURSIVE IntSeqLess(_, _)
\* a < b on two str given by their code points (or on two ints, as
\* one-element sequences): lexicographic
IntSeqLess(a, b) ==
    IF b = <<>> THEN FALSE
    ELSE IF a = <<>> THEN TRUE
    ELSE IF a[1] = b[1] THEN IntSeqLess(Tail(a), Tail(b))
    ELSE a[1] < b[1]

RECURSIVE KeyLess(_, _)
\* k1 < k2 on two sort keys, tuples of the same shape: the first component
\* that differs decides
KeyLess(k1, k2) ==
    IF k1 = <<>> \/ k2 = <<>> THEN FALSE
    ELSE IF k1[1] = k2[1] THEN KeyLess(Tail(k1), Tail(k2))
    ELSE IntSeqLess(k1[1], k2[1])

RECURSIVE SplitFrom(_, _)
\* str.split(): the maximal runs of non-whitespace, in order (cur is the run being read)
SplitFrom(s, cur) ==
    IF s = <<>> THEN (IF cur = <<>> THEN <<>> ELSE <<cur>>)
    ELSE IF IsSpace(s[1])
         THEN (IF cur = <<>> THEN <<>> ELSE <<cur>>) \o SplitFrom(Tail(s), <<>>)
         ELSE SplitFrom(Tail(s), Append(cur, s[1]))

Split(s) == SplitFrom(s, <<>>)

\* the elements of a sequence, as a set
Range(f) == {f[i] : i \in DOMAIN f}

RECURSIVE JoinSpace(_)
\* " ".join(words)
JoinSpace(ws) ==
    IF ws = <<>> THEN <<>>
    ELSE IF Len(ws) = 1 THEN ws[1]
    ELSE ws[1] \o <<" ">> \o JoinSpace(Tail(ws))

\* re.sub(r'\s+', ' ', s).strip()
CollapseSpace(s) == JoinSpace(Split(s))

RECURSIVE RemovePunct(_)
\* re.sub(r'[^\w\s]', '', s)
RemovePunct(s) ==
    IF s = <<>> THEN <<>>
    ELSE IF IsWord(s[1]) \/ IsSpace(s[1]) THEN <<s[1]>> \o RemovePunct(Tail(s))
    ELSE RemovePunct(Tail(s))

\* Optional[str]: truthiness (None and "" are falsy)
NoneStr == <<>>
Some(s) == <<s>>
Truthy(o) == o # <<>> /\ o[1] # <<>>

RECURSIVE InsertSorted(_, _)
\* x is put after every element whose key is not greater than its own
InsertSorted(x, sorted) ==
    IF sorted = <<>> THEN <<x>>
    ELSE IF KeyLess(x.k, sorted[Len(sorted)].k)
         THEN Append(InsertSorted(x, SubSeq(sorted, 1, Len(sorted) - 1)), sorted[Len(sorted)])
         ELSE Append(sorted, x)

RECURSIVE SortKeyed(_)
SortKeyed(seq) ==
    IF seq = <<>> THEN <<>>
    ELSE InsertSorted(seq[Len(seq)], SortKeyed(SubSeq(seq, 1, Len(seq) - 1)))

\* list.sort(key=...): the stable sort of a sequence of [k |-> key, v |-> element]
SortedByKey(seq) == LET r == SortKeyed(seq) IN [i \in 1..Len(r) |-> r[i].v]


\* ------------------------------------------------------------------------
\* String literals of the code
\* ------------------------------------------------------------------------
S_the == <<"t","h","e">>  \* "the"
S_Ticketmaster == <<"T","i","c","k","e","t","m","a","s","t","e","r">>  \* "Ticketmaster"
S_VenueColon == <<"V","e","n","u","e",":">>  \* "Venue:"

\* the messages of the results (the text of an exception, which the code
\* inserts, is left out)
M_NoApiKey == <<"N","o"," ","A","P","I"," ","k","e","y"," ","c","o","n","f","i","g","u","r","e","d"," ","(","s","e","t"," ","T","I","C","K","E","T","M","A","S","T","E","R","_","A","P","I","_","K","E","Y",")">>  \* "No API key configured (set TICKETMASTER_API_KEY)"
M_ApiRequestFailed == <<"A","P","I"," ","r","e","q","u","e","s","t"," ","f","a","i","l","e","d",":"," ">>  \* "API request failed: "
M_NoSheetOrCsv == <<"N","o"," ","G","o","o","g","l","e"," ","S","h","e","e","t"," ","U","R","L"," ","o","r"," ","l","o","c","a","l"," ","C","S","V"," ","f","o","u","n","d">>  \* "No Google Sheet URL or local CSV found"
M_SheetUrlFailed == <<"S","h","e","e","t"," ","U","R","L"," ","f","a","i","l","e","d"," ","(",")",","," ","t","r","y","i","n","g"," ","l","o","c","a","l"," ","C","S","V",".",".",".">>  \* "Sheet URL failed (), trying local CSV..."
M_NoEventsInRange == <<"C","S","V"," ","a","c","c","e","s","s","i","b","l","e"," ","b","u","t"," ","n","o"," ","e","v","e","n","t","s"," ","i","n"," ","d","a","t","e"," ","r","a","n","g","e">>  \* "CSV accessible but no events in date range"
M_ParseError == <<"P","a","r","s","e"," ","e","r","r","o","r",":"," ">>  \* "Parse error: "
M_Unhandled == <<"U","n","h","a","n","d","l","e","d"," ","e","x","c","e","p","t","i","o","n",":"," ">>  \* "Unhandled exception: "

\* source names
S_ManualCSV == <<"M","a","n","u","a","l"," ","(","l","o","c","a","l"," ","C","S","V",")">>  \* "Manual (local CSV)"
S_GoogleSheet == <<"G","o","o","g","l","e"," ","S","h","e","e","t">>  \* "Google Sheet"
S_Artifacts == <<"A","r","t","i","f","a","c","t","s"," ","(","V","i","s","i","o","n","-","E","x","t","r","a","c","t","e","d",")">>  \* "Artifacts (Vision-Extracted)"
S_VenueWebsites == <<"V","e","n","u","e"," ","W","e","b","s","i","t","e","s">>  \* "Venue Websites"
S_VenuePrefix == <<"V","e","n","u","e",":"," ">>  \* "Venue: "
S_Manual_open == <<"M","a","n","u","a","l"," ","(">>  \* "Manual ("
S_RParen == <<")">>  \* ")"
S_VenueTBA == <<"V","e","n","u","e"," ","T","B","A">>  \* "Venue TBA"

\* names, times and links of the events of the runs
S_Lucero == <<"L","u","c","e","r","o">>  \* "Lucero"
S_LuceroGuests == <<"L","u","c","e","r","o"," ","w","/"," ","S","p","e","c","i","a","l"," ","G","u","e","s","t","s">>  \* "Lucero w/ Special Guests"
S_SpecialGuests == <<"S","p","e","c","i","a","l"," ","G","u","e","s","t","s">>  \* "Special Guests"
S_TheLuceroLive == <<"T","h","e"," ","L","u","c","e","r","o"," ","L","i","v","e">>  \* "The Lucero Live"
S_NorthMississippiAllstars == <<"N","o","r","t","h"," ","M","i","s","s","i","s","s","i","p","p","i"," ","A","l","l","s","t","a","r","s">>  \* "North Mississippi Allstars"
S_MississippiAllstarsNorthDuo == <<"M","i","s","s","i","s","s","i","p","p","i"," ","A","l","l","s","t","a","r","s"," ","N","o","r","t","h"," ","D","u","o">>  \* "Mississippi Allstars North Duo"
S_MinglewoodHall == <<"M","i","n","g","l","e","w","o","o","d"," ","H","a","l","l">>  \* "Minglewood Hall"
S_minglewood_hall == <<"m","i","n","g","l","e","w","o","o","d"," ","h","a","l","l">>  \* "minglewood hall"
S_TheMinglewoodHall == <<"T","h","e"," ","M","i","n","g","l","e","w","o","o","d"," ","H","a","l","l">>  \* "The Minglewood Hall"
S_HiTone == <<"H","i"," ","T","o","n","e">>  \* "Hi Tone"
S_8PM == <<"8"," ","P","M">>  \* "8 PM"
S_url_x == <<"h","t","t","p",":","/","/","x">>  \* "http://x"
S_Bandsintown == <<"B","a","n","d","s","i","n","t","o","w","n">>  \* "Bandsintown"
S_VenueMinglewood == <<"V","e","n","u","e",":"," ","M","i","n","g","l","e","w","o","o","d"," ","H","a","l","l">>  \* "Venue: Minglewood Hall"
S_ManualSheet == <<"M","a","n","u","a","l"," ","(","G","o","o","g","l","e"," ","S","h","e","e","t",")">>  \* "Manual (Google Sheet)"
S_Growlers == <<"G","r","o","w","l","e","r","s">>  \* "Growlers"
S_HernandosHideaway == <<"H","e","r","n","a","n","d","o","'","s"," ","H","i","d","e","a","w","a","y">>  \* "Hernando's Hideaway"
S_BarDKDC == <<"B","a","r"," ","D","K","D","C">>  \* "Bar DKDC"
S_minglewood == <<"m","i","n","g","l","e","w","o","o","d">>  \* "minglewood"
S_AlGreen == <<"A","l"," ","G","r","e","e","n">>  \* "Al Green"
S_9PM == <<"9"," ","P","M">>  \* "9 PM"
S_soon == <<"s","o","o","n">>  \* "soon"

\* ------------------------------------------------------------------------
\* src/src/models.py
\* ------------------------------------------------------------------------

\* Event(artist, venue, date, time, source, url)
Event(artist, venue, date, time, source, url) ==
    [artist |-> artist, venue |-> venue, date |-> date, time |-> time,
     source |-> source, url |-> url]

\* SourceResult(source_name): the defaults of the dataclass. An error_message
\* is None (<<>>) or one message (its text is not inspected by the code).
SourceResult(source_name) ==
    [source_name |-> source_name, events |-> <<>>, success |-> TRUE,
     error_message |-> <<>>, events_found |-> 0, events_filtered |-> 0]

\* ------------------------------------------------------------------------
\* src/src/config.py
\* ------------------------------------------------------------------------

\* START_DATE = TODAY + timedelta(days=1)
START_DATE(day) == day + 1

\* END_DATE = TODAY + timedelta(days=7)
END_DATE(day) == day + 7

\* VENUE_ALIAS_MAP.items(), in insertion order: <<alias, canonical>>
VENUE_ALIAS_MAP ==
    << <<<<"h","i"," ","t","o","n","e">>, <<"H","i"," ","T","o","n","e">>>>,
       <<<<"h","i","-","t","o","n","e">>, <<"H","i"," ","T","o","n","e">>>>,
       <<<<"h","i"," ","t","o","n","e"," ","c","a","f","é">>, <<"H","i"," ","T","o","n","e">>>>,
       <<<<"h","i"," ","t","o","n","e"," ","c","a","f","e">>, <<"H","i"," ","T","o","n","e">>>>,
       <<<<"t","h","e"," ","h","i","-","t","o","n","e">>, <<"H","i"," ","T","o","n","e">>>>,
       <<<<"m","i","n","g","l","e","w","o","o","d">>, <<"M","i","n","g","l","e","w","o","o","d"," ","H","a","l","l">>>>,
       <<<<"m","i","n","g","l","e","w","o","o","d"," ","h","a","l","l">>, <<"M","i","n","g","l","e","w","o","o","d"," ","H","a","l","l">>>>,
       <<<<"1","5","5","5"," ","m","a","d","i","s","o","n">>, <<"M","i","n","g","l","e","w","o","o","d"," ","H","a","l","l">>>>,
       <<<<"g","r","o","w","l","e","r","s">>, <<"G","r","o","w","l","e","r","s">>>>,
       <<<<"g","r","o","w","l","e","r","s"," ","m","e","m","p","h","i","s">>, <<"G","r","o","w","l","e","r","s">>>>,
       <<<<"h","e","r","n","a","n","d","o","s">>, <<"H","e","r","n","a","n","d","o","'","s"," ","H","i","d","e","a","w","a","y">>>>,
       <<<<"h","e","r","n","a","n","d","o","'","s">>, <<"H","e","r","n","a","n","d","o","'","s"," ","H","i","d","e","a","w","a","y">>>>,
       <<<<"h","e","r","n","a","n","d","o","s"," ","h","i","d","e","a","w","a","y">>, <<"H","e","r","n","a","n","d","o","'","s"," ","H","i","d","e","a","w","a","y">>>>,
       <<<<"h","e","r","n","a","n","d","o","'","s"," ","h","i","d","e","a","w","a","y">>, <<"H","e","r","n","a","n","d","o","'","s"," ","H","i","d","e","a","w","a","y">>>>,
       <<<<"c","r","o","s","s","t","o","w","n"," ","a","r","t","s">>, <<"C","r","o","s","s","t","o","w","n"," ","A","r","t","s">>>>,
       <<<<"t","h","e"," ","g","r","e","e","n"," ","r","o","o","m">>, <<"C","r","o","s","s","t","o","w","n"," ","A","r","t","s">>>>,
       <<<<"g","r","e","e","n"," ","r","o","o","m"," ","c","r","o","s","s","t","o","w","n">>, <<"C","r","o","s","s","t","o","w","n"," ","A","r","t","s">>>>,
       <<<<"c","r","o","s","s","t","o","w","n"," ","c","o","n","c","o","u","r","s","e">>, <<"C","r","o","s","s","t","o","w","n"," ","A","r","t","s">>>>,
       <<<<"l","a","f","a","y","e","t","t","e","s">>, <<"L","a","f","a","y","e","t","t","e","'","s"," ","M","u","s","i","c"," ","R","o","o","m">>>>,
       <<<<"l","a","f","a","y","e","t","t","e","'","s">>, <<"L","a","f","a","y","e","t","t","e","'","s"," ","M","u","s","i","c"," ","R","o","o","m">>>>,
       <<<<"l","a","f","a","y","e","t","t","e","s"," ","m","u","s","i","c"," ","r","o","o","m">>, <<"L","a","f","a","y","e","t","t","e","'","s"," ","M","u","s","i","c"," ","R","o","o","m">>>>,
       <<<<"l","a","f","a","y","e","t","t","e","'","s"," ","m","u","s","i","c"," ","r","o","o","m">>, <<"L","a","f","a","y","e","t","t","e","'","s"," ","M","u","s","i","c"," ","R","o","o","m">>>>,
       <<<<"l","e","v","i","t","t"," ","s","h","e","l","l">>, <<"O","v","e","r","t","o","n"," ","P","a","r","k"," ","S","h","e","l","l">>>>,
       <<<<"o","v","e","r","t","o","n"," ","p","a","r","k"," ","s","h","e","l","l">>, <<"O","v","e","r","t","o","n"," ","P","a","r","k"," ","S","h","e","l","l">>>>,
       <<<<"t","h","e"," ","s","h","e","l","l">>, <<"O","v","e","r","t","o","n"," ","P","a","r","k"," ","S","h","e","l","l">>>>,
       <<<<"b","b"," ","k","i","n","g","s">>, <<"B",".","B","."," ","K","i","n","g","'","s"," ","B","l","u","e","s"," ","C","l","u","b">>>>,
       <<<<"b",".","b","."," ","k","i","n","g","s">>, <<"B",".","B","."," ","K","i","n","g","'","s"," ","B","l","u","e","s"," ","C","l","u","b">>>>,
       <<<<"b",".","b","."," ","k","i","n","g","'","s">>, <<"B",".","B","."," ","K","i","n","g","'","s"," ","B","l","u","e","s"," ","C","l","u","b">>>>,
       <<<<"b","b"," ","k","i","n","g","'","s"," ","b","l","u","e","s"," ","c","l","u","b">>, <<"B",".","B","."," ","K","i","n","g","'","s"," ","B","l","u","e","s"," ","C","l","u","b">>>>,
       <<<<"g","r","a","c","e","l","a","n","d"," ","s","o","u","n","d","s","t","a","g","e">>, <<"G","r","a","c","e","l","a","n","d"," ","S","o","u","n","d","s","t","a","g","e">>>>,
       <<<<"g","r","a","c","e","l","a","n","d"," ","l","i","v","e">>, <<"G","r","a","c","e","l","a","n","d"," ","S","o","u","n","d","s","t","a","g","e">>>>,
       <<<<"g","u","e","s","t"," ","h","o","u","s","e"," ","t","h","e","a","t","e","r">>, <<"G","r","a","c","e","l","a","n","d"," ","S","o","u","n","d","s","t","a","g","e">>>>,
       <<<<"f","e","d","e","x","f","o","r","u","m">>, <<"F","e","d","E","x","F","o","r","u","m">>>>,
       <<<<"f","e","d","e","x"," ","f","o","r","u","m">>, <<"F","e","d","E","x","F","o","r","u","m">>>>,
       <<<<"g","e","r","m","a","n","t","o","w","n"," ","p","e","r","f","o","r","m","i","n","g"," ","a","r","t","s">>, <<"G","e","r","m","a","n","t","o","w","n"," ","P","e","r","f","o","r","m","i","n","g"," ","A","r","t","s"," ","C","e","n","t","e","r">>>>,
       <<<<"g","e","r","m","a","n","t","o","w","n"," ","p","e","r","f","o","r","m","i","n","g"," ","a","r","t","s"," ","c","e","n","t","e","r">>, <<"G","e","r","m","a","n","t","o","w","n"," ","P","e","r","f","o","r","m","i","n","g"," ","A","r","t","s"," ","C","e","n","t","e","r">>>>,
       <<<<"g","p","a","c">>, <<"G","e","r","m","a","n","t","o","w","n"," ","P","e","r","f","o","r","m","i","n","g"," ","A","r","t","s"," ","C","e","n","t","e","r">>>>,
       <<<<"b","a","r"," ","d","k","d","c">>, <<"B","a","r"," ","D","K","D","C">>>>,
       <<<<"d","k","d","c">>, <<"B","a","r"," ","D","K","D","C">>>>,
       <<<<"b","-","s","i","d","e">>, <<"B","-","S","i","d","e"," ","M","e","m","p","h","i","s">>>>,
       <<<<"b","s","i","d","e">>, <<"B","-","S","i","d","e"," ","M","e","m","p","h","i","s">>>>,
       <<<<"b"," ","s","i","d","e">>, <<"B","-","S","i","d","e"," ","M","e","m","p","h","i","s">>>>,
       <<<<"b","-","s","i","d","e"," ","m","e","m","p","h","i","s">>, <<"B","-","S","i","d","e"," ","M","e","m","p","h","i","s">>>> >>
\* EXCLUDE_KEYWORDS
EXCLUDE_KEYWORDS ==
    { <<"c","o","m","e","d","y">>,
      <<"s","t","a","n","d","-","u","p">>,
      <<"s","t","a","n","d","u","p">>,
      <<"s","t","a","n","d"," ","u","p">>,
      <<"c","o","m","e","d","i","a","n">>,
      <<"o","p","e","n"," ","m","i","c"," ","c","o","m","e","d","y">>,
      <<"t","h","e","a","t","r","e">>,
      <<"t","h","e","a","t","e","r">>,
      <<"p","l","a","y">>,
      <<"m","u","s","i","c","a","l"," ","t","h","e","a","t","e","r">>,
      <<"b","r","o","a","d","w","a","y">>,
      <<"a","r","t"," ","o","p","e","n","i","n","g">>,
      <<"a","r","t"," ","s","h","o","w">>,
      <<"g","a","l","l","e","r","y"," ","o","p","e","n","i","n","g">>,
      <<"e","x","h","i","b","i","t","i","o","n">>,
      <<"p","o","e","t","r","y"," ","r","e","a","d","i","n","g">>,
      <<"s","p","o","k","e","n"," ","w","o","r","d">>,
      <<"b","o","o","k"," ","s","i","g","n","i","n","g">>,
      <<"b","o","o","k"," ","r","e","a","d","i","n","g">>,
      <<"t","r","i","v","i","a">>,
      <<"t","r","i","v","i","a"," ","n","i","g","h","t">>,
      <<"b","i","n","g","o">>,
      <<"g","a","m","e"," ","n","i","g","h","t">>,
      <<"d","r","a","g"," ","b","r","u","n","c","h">>,
      <<"n","e","t","w","o","r","k","i","n","g">>,
      <<"m","i","x","e","r">>,
      <<"b","u","s","i","n","e","s","s">>,
      <<"y","o","g","a">>,
      <<"f","i","t","n","e","s","s">>,
      <<"w","e","l","l","n","e","s","s">>,
      <<"m","e","d","i","t","a","t","i","o","n">>,
      <<"f","i","l","m"," ","s","c","r","e","e","n","i","n","g">>,
      <<"m","o","v","i","e"," ","n","i","g","h","t">>,
      <<"p","a","i","n","t"," ","a","n","d"," ","s","i","p">>,
      <<"p","a","i","n","t"," ","n","i","g","h","t">>,
      <<"c","r","a","f","t"," ","n","i","g","h","t">>,
      <<"f","o","o","d"," ","t","r","u","c","k">>,
      <<"f","a","r","m","e","r","s"," ","m","a","r","k","e","t">> }
\* MUSIC_KEYWORDS
MUSIC_KEYWORDS ==
    { <<"c","o","n","c","e","r","t">>,
      <<"l","i","v","e"," ","m","u","s","i","c">>,
      <<"l","i","v","e"," ","b","a","n","d">>,
      <<"b","a","n","d">>,
      <<"d","j">>,
      <<"d","j"," ","n","i","g","h","t">>,
      <<"d","a","n","c","e"," ","n","i","g","h","t">>,
      <<"e","l","e","c","t","r","o","n","i","c">>,
      <<"e","d","m">>,
      <<"h","i","p"," ","h","o","p">>,
      <<"h","i","p","-","h","o","p">>,
      <<"r","&","b">>,
      <<"s","o","u","l">>,
      <<"b","l","u","e","s">>,
      <<"j","a","z","z">>,
      <<"r","o","c","k">>,
      <<"p","u","n","k">>,
      <<"m","e","t","a","l">>,
      <<"c","o","u","n","t","r","y">>,
      <<"f","o","l","k">>,
      <<"i","n","d","i","e">>,
      <<"r","e","g","g","a","e">>,
      <<"g","o","s","p","e","l">>,
      <<"f","u","n","k">>,
      <<"s","i","n","g","e","r">>,
      <<"s","o","n","g","w","r","i","t","e","r">>,
      <<"r","a","p","p","e","r">>,
      <<"m","c"," ">>,
      <<"f","e","a","t",".">>,
      <<"f","e","a","t","u","r","i","n","g">>,
      <<"t","o","u","r">>,
      <<"a","l","b","u","m"," ","r","e","l","e","a","s","e">>,
      <<"r","e","c","o","r","d"," ","r","e","l","e","a","s","e">>,
      <<"b","e","a","t","s">>,
      <<"b","a","s","s">>,
      <<"h","o","u","s","e"," ","m","u","s","i","c">>,
      <<"t","e","c","h","n","o">>,
      <<"d","i","s","c","o">>,
      <<"o","p","e","n"," ","m","i","c">>,
      <<"j","a","m"," ","s","e","s","s","i","o","n">>,
      <<"j","a","m"," ","n","i","g","h","t">>,
      <<"k","a","r","a","o","k","e">> }

RECURSIVE FirstPartialMatch(_, _)
\* for alias, canonical in VENUE_ALIAS_MAP.items():
\*     if alias in lower or lower in alias: return canonical
\* <<canonical>> of the first match, <<>> when the loop ends without one
FirstPartialMatch(lower, items) ==
    IF items = <<>> THEN <<>>
    ELSE IF Contains(lower, items[1][1]) \/ Contains(items[1][1], lower)
         THEN <<items[1][2]>>
         ELSE FirstPartialMatch(lower, Tail(items))

\* normalize_venue_name(name)
normalize_venue_name(name) ==
    LET lower == Strip(Lower(name))
        exact == {i \in 1..Len(VENUE_ALIAS_MAP) : VENUE_ALIAS_MAP[i][1] = lower}
        partial == FirstPartialMatch(lower, VENUE_ALIAS_MAP)
    IN  IF exact # {} THEN VENUE_ALIAS_MAP[CHOOSE i \in exact : TRUE][2]
        ELSE IF partial # <<>> THEN partial[1]
        ELSE Strip(name)

\* config.py is_music_event(title, category, description)
is_music_event(title, category, description) ==
    LET text == Lower(title \o <<" ">> \o category \o <<" ">> \o description)
        music_categories == {<<"m","u","s","i","c">>, <<"c","o","n","c","e","r","t">>, <<"f","e","s","t","i","v","a","l","s">>, <<"n","i","g","h","t","l","i","f","e">>, <<"d","j">>}
    IN  IF (\E keyword \in EXCLUDE_KEYWORDS : Contains(text, keyword))
            /\ ~(\E mk \in MUSIC_KEYWORDS : Contains(text, mk))
        THEN FALSE
        ELSE IF \E cat \in music_categories : Contains(Lower(category), cat) THEN TRUE
        ELSE IF \E kw \in MUSIC_KEYWORDS : Contains(text, kw) THEN TRUE
        ELSE IF \E i \in 1..Len(VENUE_ALIAS_MAP) : Contains(text, VENUE_ALIAS_MAP[i][1]) THEN TRUE
        ELSE FALSE

\* ------------------------------------------------------------------------
\* src/src/normalize.py
\* ------------------------------------------------------------------------

\* re.sub(r'^the\s+', '', text)
StripThePrefix(text) ==
    IF StartsWith(text, S_the) /\ Len(text) > 3 /\ IsSpace(text[4])
    THEN LStrip(SubSeq(text, 4, Len(text)))
    ELSE text

\* the words of (live|concert|tour|show|presents?|featuring|feat\.?|ft\.?)
SuffixWords ==
    { <<"l","i","v","e">>,  \* "live"
      <<"c","o","n","c","e","r","t">>,  \* "concert"
      <<"t","o","u","r">>,  \* "tour"
      <<"s","h","o","w">>,  \* "show"
      <<"p","r","e","s","e","n","t">>,  \* "present"
      <<"p","r","e","s","e","n","t","s">>,  \* "presents"
      <<"f","e","a","t","u","r","i","n","g">>,  \* "featuring"
      <<"f","e","a","t">>,  \* "feat"
      <<"f","e","a","t",".">>,  \* "feat."
      <<"f","t">>,  \* "ft"
      <<"f","t",".">> }  \* "ft."

\* re.sub(r'\s*(live|concert|...|ft\.?)\s*$', '', text): the leftmost position
\* from which the rest of the text is whitespace, one of the words, whitespace
StripSuffixWord(text) ==
    LET starts == {i \in 1..Len(text) : Strip(SubSeq(text, i, Len(text))) \in SuffixWords}
    IN  IF starts = {} THEN text
        ELSE LET first == CHOOSE i \in starts : \A j \in starts : i <= j
             IN  SubSeq(text, 1, first - 1)

\* _normalize(text)
_normalize(text) ==
    CollapseSpace(RemovePunct(StripSuffixWord(StripThePrefix(Strip(Lower(text))))))

\* _artists_match(a, b)
_artists_match(a, b) ==
    LET na == _normalize(a)
        nb == _normalize(b)
        words_a == Range(Split(na))
        words_b == Range(Split(nb))
    IN  IF na = nb THEN TRUE
        ELSE IF Contains(nb, na) \/ Contains(na, nb) THEN TRUE
        ELSE IF words_a = {} \/ words_b = {} THEN FALSE
        ELSE \* jaccard = |intersection| / |union| > 0.6
             5 * Cardinality(words_a \cap words_b) > 3 * Cardinality(words_a \cup words_b)

\* any(p in event.source for p in ["Ticketmaster", "Venue:"])
PreferredSource(source) == Contains(source, S_Ticketmaster) \/ Contains(source, S_VenueColon)

\* _detail_score(event)
_detail_score(event) ==
      (IF Truthy(event.time) THEN 2 ELSE 0)
    + (IF Truthy(event.url) THEN 1 ELSE 0)
    + (IF Len(event.artist) > 20 THEN 1 ELSE 0)
    + (IF PreferredSource(event.source) THEN 1 ELSE 0)

\* a choice that keeps the event seen first
_pick_best_first(a, b) == a

\* _pick_best(a, b)
_pick_best(a, b) == IF _detail_score(a) >= _detail_score(b) THEN a ELSE b

\* the key of an event's group: f"{event.date.isoformat()}|{_normalize(event.venue)}"
\* variant: a key that leaves the date out
GroupKey_venue_only(event) == <<_normalize(event.venue)>>

GroupKey(event) == <<event.date, _normalize(event.venue)>>

RECURSIVE GroupKeys(_, _)
\* the keys of the groups dict, in insertion order
GroupKeys(events, seen) ==
    IF events = <<>> THEN seen
    ELSE IF \E i \in 1..Len(seen) : seen[i] = GroupKey(events[1])
         THEN GroupKeys(Tail(events), seen)
         ELSE GroupKeys(Tail(events), Append(seen, GroupKey(events[1])))

\* groups[key]: the events of one group, in input order
GroupEvents(events, key) ==
    LET InGroup(e) == GroupKey(e) = key IN SelectSeq(events, InGroup)

RECURSIVE ClusterGroup(_, _)
\* the loop over group_events: seen_artists after the events of the group
ClusterGroup(group_events, seen_artists) ==
    IF group_events = <<>> THEN seen_artists
    ELSE LET event == group_events[1]
             dups == {i \in 1..Len(seen_artists) :
                        _artists_match(event.artist, seen_artists[i].artist)}
         IN  IF dups # {}
             THEN LET i == CHOOSE i \in dups : \A j \in dups : i <= j
                  IN  ClusterGroup(Tail(group_events),
                        [seen_artists EXCEPT ![i] = _pick_best(seen_artists[i], event)])
             ELSE ClusterGroup(Tail(group_events), Append(seen_artists, event))

\* what one group adds to deduped
DedupGroup(group_events) ==
    IF Len(group_events) = 1 THEN group_events ELSE ClusterGroup(group_events, <<>>)

RECURSIVE DedupGroups(_, _)
DedupGroups(events, keys) ==
    IF keys = <<>> THEN <<>>
    ELSE DedupGroup(GroupEvents(events, keys[1])) \o DedupGroups(events, Tail(keys))

\* Event.sort_key
sort_key(e) == << <<e.date>>, Ords(Lower(e.venue)), Ords(Lower(e.artist)) >>

\* deduplicate(events)
deduplicate(events) ==
    IF events = <<>> THEN <<>>
    ELSE LET merged == DedupGroups(events, GroupKeys(events, <<>>))
         IN  SortedByKey([i \in 1..Len(merged) |-> [k |-> sort_key(merged[i]), v |-> merged[i]]])


\* ------------------------------------------------------------------------
\* JSON values (the content of docs/source_cache.json and the cache dict)
\*
\* Every value carries its type t. A dict is a function from keys to values:
\* a record for the keys the code names, a function on source names for
\* cache["sources"]. The str that date.isoformat() returns for day d is
\* JDate(d); every other str is JStr of its characters.
\* ------------------------------------------------------------------------
JNull == [t |-> "null"]
JBool(b) == [t |-> "bool", b |-> b]
JNum(n) == [t |-> "num", n |-> n]
JStr(s) == [t |-> "str", s |-> s]
JDate(d) == [t |-> "datestr", d |-> d]
JList(l) == [t |-> "list", l |-> l]
JDict(f) == [t |-> "dict", m |-> f]
\* the Python value under the type tag
JVal(x) ==
    CASE x.t = "bool" -> x.b
      [] x.t = "num" -> x.n
      [] x.t = "str" -> x.s
      [] x.t = "datestr" -> x.d
      [] x.t = "list" -> x.l
      [] x.t = "dict" -> x.m

\* {}
EmptyDict == <<>>

\* bool(x) of a JSON value
JTruthy(x) ==
    CASE x.t = "null" -> FALSE
      [] x.t = "bool" -> JVal(x)
      [] x.t = "num" -> JVal(x) # 0
      [] x.t = "str" -> JVal(x) # <<>>
      [] x.t = "datestr" -> TRUE
      [] x.t = "list" -> JVal(x) # <<>>
      [] x.t = "dict" -> DOMAIN JVal(x) # {}

\* d.get(key, default) on a dict
JGet(d, key, default) == IF key \in DOMAIN JVal(d) THEN JVal(d)[key] ELSE default

\* an Optional[str] attribute as a JSON value, and back
JOpt(o) == IF o = <<>> THEN JNull ELSE JStr(o[1])
OptOfJson(x) == IF x.t = "str" THEN <<JVal(x)>> ELSE <<>>

\* the value of a call that may raise: the exception, or the value returned
Raise(exc) == [exc |-> exc]
Return(val) == [exc |-> "", val |-> val]
Raised(r) == r.exc # ""

\* ------------------------------------------------------------------------
\* src/src/sources/ticketmaster.py
\* ------------------------------------------------------------------------

\* The API's answer is [kind |-> "request_failed"], [kind |-> "no_embedded"] or
\* [kind |-> "events", raw |-> the items of data["_embedded"]["events"]]; an
\* item is [kind |-> "event", event |-> e] when _parse_event gives e and
\* is_music_event accepts it, [kind |-> "filtered"] when it is counted as
\* filtered, [kind |-> "error"] when parsing it raises.
IsParsedEvent(item) == item.kind = "event"
IsFilteredItem(item) == item.kind = "filtered"

\* fetch(); api_key: whether TICKETMASTER_API_KEY is set
ticketmaster_fetch(api_key, response) ==
    LET result == SourceResult(S_Ticketmaster)
    IN  IF ~api_key
        THEN [result EXCEPT !.success = FALSE, !.error_message = <<M_NoApiKey>>]
        ELSE IF response.kind = "request_failed"
        THEN [result EXCEPT !.success = FALSE, !.error_message = <<M_ApiRequestFailed>>]
        ELSE IF response.kind = "no_embedded"
        THEN result
        ELSE LET kept == SelectSeq(response.raw, IsParsedEvent)
             IN  [result EXCEPT
                    !.events_found = Len(response.raw),
                    !.events = [i \in 1..Len(kept) |-> kept[i].event],
                    !.events_filtered = Len(SelectSeq(response.raw, IsFilteredItem))]

\* ------------------------------------------------------------------------
\* src/src/sources/google_sheet.py
\* ------------------------------------------------------------------------

\* A row of the table, under a header with the columns date, artist, venue,
\* time and source_note. The date column is JDate(d) when its text is the day
\* d in one of the accepted formats, JStr of its characters otherwise. cells
\* is the number of cells of the line: csv.DictReader gives None for the
\* columns a shorter line does not reach.
Row(date, artist, venue, time, source_note) ==
    [date |-> date, artist |-> artist, venue |-> venue, time |-> time,
     source_note |-> source_note, cells |-> 5]

\* a line that ends after its first n cells
ShortRow(row, n) == [row EXCEPT !.cells = n]

\* _parse_row(row): Return(<<event>>), Return(<<>>) for None, or the
\* AttributeError of get_field's row[key].strip() on a None
_parse_row(row) ==
    LET artist == Strip(row.artist)
        venue == Strip(row.venue)
        time == Strip(row.time)
        source_note == Strip(row.source_note)
    IN  IF row.cells < 5 THEN Raise("AttributeError")
        ELSE IF ~JTruthy(row.date) \/ artist = <<>> THEN Return(<<>>)
        ELSE IF row.date.t # "datestr" THEN Return(<<>>)
        ELSE Return(<<Event(artist,
                     IF venue # <<>> THEN normalize_venue_name(venue) ELSE S_VenueTBA,
                     JVal(row.date),
                     IF time # <<>> THEN <<time>> ELSE <<>>,
                     IF source_note # <<>> THEN S_Manual_open \o source_note \o S_RParen
                                           ELSE S_ManualSheet,
                     <<>>)>>)

RECURSIVE ParseRows(_, _)
\* the loop over the rows: the events appended to result.events; a row
\* whose parsing raises is passed over (except Exception: continue)
ParseRows(rows, day) ==
    IF rows = <<>> THEN <<>>
    ELSE LET parsed == _parse_row(rows[1])
             event == IF Raised(parsed) THEN <<>> ELSE parsed.val
         IN  (IF event # <<>> /\ START_DATE(day) <= event[1].date /\ event[1].date <= END_DATE(day)
              THEN event ELSE <<>>) \o ParseRows(Tail(rows), day)

\* fetch(); sheet_url: whether GOOGLE_SHEET_CSV_URL is set; sheet: what the
\* request gives, [kind |-> "failed"] or [kind |-> "csv", rows |-> ...];
\* local_csv: manual_events.csv, [kind |-> "missing"], [kind |-> "unreadable"]
\* or [kind |-> "csv", rows |-> ...]
google_sheet_fetch(sheet_url, sheet, local_csv, day) ==
    LET result == SourceResult(S_ManualSheet)
        url_ok == sheet_url /\ sheet.kind = "csv"
        after_url == IF sheet_url /\ ~url_ok
                     THEN [result EXCEPT !.error_message = <<M_SheetUrlFailed>>]
                     ELSE result
        use_local == ~url_ok /\ local_csv.kind = "csv"
        after_local == IF use_local
                       THEN [after_url EXCEPT !.source_name = S_ManualCSV]
                       ELSE after_url
    IN  IF ~url_ok /\ ~use_local
        THEN [after_local EXCEPT !.success = TRUE, !.error_message = <<M_NoSheetOrCsv>>]
        ELSE LET events == ParseRows(IF url_ok THEN sheet.rows ELSE local_csv.rows, day)
                 parsed == [after_local EXCEPT !.events = events, !.events_found = Len(events)]
             IN  IF Len(events) = 0
                 THEN [parsed EXCEPT !.error_message = <<M_NoEventsInRange>>]
                 ELSE parsed

\* ------------------------------------------------------------------------
\* src/src/main.py: cache helpers
\* ------------------------------------------------------------------------

\* the file at CACHE_PATH
FileMissing == [kind |-> "missing"]
FileNotJson == [kind |-> "notjson"]
FileJson(data) == [kind |-> "json", data |-> data]

\* {"cache_date": None, "sources": {}, "artifact_hashes": {}, "artifact_events": {}}
FreshCache ==
    JDict([cache_date |-> JNull, sources |-> JDict(EmptyDict),
           artifact_hashes |-> JDict(EmptyDict), artifact_events |-> JDict(EmptyDict)])

\* _load_cache()
_load_cache(file) ==
    IF file.kind = "json" /\ file.data.t = "dict" /\ "sources" \in DOMAIN JVal(file.data)
    THEN file.data
    ELSE FreshCache

\* _save_cache(cache): the content written to CACHE_PATH
_save_cache(cache_, day) ==
    FileJson(JDict([k \in DOMAIN JVal(cache_) \cup {"cache_date"} |->
                      IF k = "cache_date" THEN JDate(day) ELSE JVal(cache_)[k]]))

\* a lookup that takes a successful entry of any day
_is_cached_today_any_day(cache_, source_name, day) ==
    LET sources == JGet(cache_, "sources", JDict(EmptyDict))
    IN  IF sources.t # "dict" THEN Raise("AttributeError")
        ELSE LET entry == JGet(sources, source_name, JNull)
             IN  IF ~JTruthy(entry) THEN Return(FALSE)
                 ELSE IF entry.t # "dict" THEN Raise("AttributeError")
                 ELSE Return(JTruthy(JGet(entry, "success", JBool(FALSE))))

\* _is_cached_today(cache, source_name)
_is_cached_today(cache_, source_name, day) ==
    LET sources == JGet(cache_, "sources", JDict(EmptyDict))
    IN  IF sources.t # "dict" THEN Raise("AttributeError")
        ELSE LET entry == JGet(sources, source_name, JNull)
             IN  IF ~JTruthy(entry) THEN Return(FALSE)
                 ELSE IF entry.t # "dict" THEN Raise("AttributeError")
                 ELSE IF ~JTruthy(JGet(entry, "success", JBool(FALSE))) THEN Return(FALSE)
                 ELSE Return(JGet(entry, "fetched_date", JNull) = JDate(day))

\* one pass of the loop of _events_from_cache over a cached record e:
\* the exception that leaves the function, or the events it appends
CachedEvent(e, source_name, day) ==
    IF e.t # "dict" THEN Raise("TypeError")
    ELSE IF "date" \notin DOMAIN JVal(e) THEN Return(<<>>)             \* KeyError
    ELSE IF JVal(e)["date"].t \notin {"str", "datestr"} THEN Raise("TypeError")
    ELSE IF JVal(e)["date"].t # "datestr" THEN Return(<<>>)            \* ValueError
    ELSE LET event_date == JVal(JVal(e)["date"])
         IN  IF ~(START_DATE(day) <= event_date /\ event_date <= END_DATE(day))
             THEN Return(<<>>)
             ELSE IF "artist" \notin DOMAIN JVal(e) \/ "venue" \notin DOMAIN JVal(e)
             THEN Return(<<>>)                                     \* KeyError
             ELSE Return(<<Event(JVal(JVal(e)["artist"]), JVal(JVal(e)["venue"]), event_date,
                                 OptOfJson(JGet(e, "time", JNull)),
                                 JVal(JGet(e, "source", JStr(source_name))),
                                 OptOfJson(JGet(e, "url", JNull)))>>)

RECURSIVE CachedEvents(_, _, _)
\* the loop of _events_from_cache over the cached records
CachedEvents(records, source_name, day) ==
    IF records = <<>> THEN Return(<<>>)
    ELSE LET first == CachedEvent(records[1], source_name, day)
         IN  IF Raised(first) THEN first
             ELSE LET rest == CachedEvents(Tail(records), source_name, day)
                  IN  IF Raised(rest) THEN rest ELSE Return(first.val \o rest.val)

\* _events_from_cache(cache, source_name)
_events_from_cache(cache_, source_name, day) ==
    LET entry == JVal(JVal(cache_)["sources"])[source_name]
        cached == JGet(entry, "events", JList(<<>>))
        \* an empty dict or str is iterated over without a pass of the loop
        iterable == cached.t = "list" \/ (cached.t \in {"dict", "str"} /\ ~JTruthy(cached))
        events == IF cached.t = "list"
                  THEN CachedEvents(JVal(cached), source_name, day)
                  ELSE Return(<<>>)
    IN  IF ~iterable THEN Raise("TypeError")
        ELSE IF Raised(events) THEN events
        ELSE Return([SourceResult(source_name) EXCEPT
                !.events = events.val,
                !.events_found = JVal(JGet(entry, "events_found", JNum(Len(events.val)))),
                !.events_filtered = JVal(JGet(entry, "events_filtered", JNum(0)))])

\* an event dict that leaves the time out
EventDict_without_time(e) ==
    JDict([artist |-> JStr(e.artist), venue |-> JStr(e.venue), date |-> JDate(e.date),
           source |-> JStr(e.source), url |-> JOpt(e.url)])

\* the dict of one event in _cache_source_result
EventDict(e) ==
    JDict([artist |-> JStr(e.artist), venue |-> JStr(e.venue), date |-> JDate(e.date),
           time |-> JOpt(e.time), source |-> JStr(e.source), url |-> JOpt(e.url)])

\* the entry _cache_source_result stores under source_name
CacheEntry(result, day) ==
    JDict([fetched_date |-> JDate(day),
           success |-> JBool(result.success),
           events_found |-> JNum(result.events_found),
           events_filtered |-> JNum(result.events_filtered),
           error_message |-> JOpt(result.error_message),
           events |-> JList([i \in 1..Len(result.events) |-> EventDict(result.events[i])])])

\* _cache_source_result(cache, source_name, result): the cache dict after it
_cache_source_result(cache_, source_name, result, day) ==
    JDict([JVal(cache_) EXCEPT !["sources"] =
        JDict((source_name :> CacheEntry(result, day)) @@ JVal(JVal(cache_)["sources"]))])

\* ------------------------------------------------------------------------
\* src/src/main.py: run
\* ------------------------------------------------------------------------

\* the number of entries of VENUES with a web calendar that are modelled
MaxVenues == 2

VenueInfo(name, calendar_url, scraper) ==
    [name |-> name, calendar_url |-> calendar_url, scraper |-> scraper]

\* the first entries of config.VENUES, which have a calendar_url
WebVenues ==
    << VenueInfo(S_HiTone, <<"https://www.hitonememphis.com/events">>, "hi_tone"),
       VenueInfo(S_MinglewoodHall, <<"https://www.minglewoodhall.com/events">>, "minglewood"),
       VenueInfo(S_Growlers, <<"https://www.growlersmemphis.com/events">>, "growlers"),
       VenueInfo(S_HernandosHideaway, <<"https://www.hernandoshideaway.com">>, "generic") >>

\* config.VENUES.values(): entries with a web calendar, then one without
VENUES ==
    SubSeq(WebVenues, 1, MaxVenues) \o << VenueInfo(S_BarDKDC, <<>>, "manual_only") >>

\* if not url or scraper_type == "manual_only": continue
SkipVenue(venue_info) == venue_info.calendar_url = <<>> \/ venue_info.scraper = "manual_only"

\* source_key = f"Venue: {venue_info['name']}"
SourceKey(venue_info) == S_VenuePrefix \o venue_info.name

\* ------------------------------------------------------------------------
\* src/src/sources/venue_scrapers.py
\*
\* A page is what the request for a venue's calendar gives: [kind |->
\* "failed"] when the request raises, [kind |-> "html", events |-> ...] with
\* the events the parsers find on the page.
\* ------------------------------------------------------------------------

\* _scrape_venue(venue_key, venue_info)
_scrape_venue(venue_info, page, day) ==
    LET result == SourceResult(S_VenuePrefix \o venue_info.name)
    IN  IF page.kind = "failed"
        THEN [result EXCEPT !.success = FALSE, !.error_message = <<<<"R","e","q","u","e","s","t"," ","f","a","i","l","e","d",":"," ">>>>]
        ELSE LET InRange(e) == START_DATE(day) <= e.date /\ e.date <= END_DATE(day)
                 kept == SelectSeq(page.events, InRange)
                 parsed == [result EXCEPT !.events_found = Len(page.events),
                                          !.events = kept,
                                          !.events_filtered = Len(page.events) - Len(kept)]
             IN  IF Len(page.events) = 0
                 THEN [parsed EXCEPT !.error_message =
                         <<<<"0"," ","e","v","e","n","t","s"," ","p","a","r","s","e","d"," ","-"," ","p","a","g","e"," ","s","t","r","u","c","t","u","r","e"," ","m","a","y"," ","h","a","v","e"," ","c","h","a","n","g","e","d">>>>]
                 ELSE parsed

RECURSIVE JoinComma(_)
\* ", ".join(names)
JoinComma(names) ==
    IF names = <<>> THEN <<>>
    ELSE IF Len(names) = 1 THEN names[1]
    ELSE names[1] \o <<","," ">> \o JoinComma(Tail(names))

RECURSIVE SumOver(_, _)
\* the sum of a field over the sub-results
SumOver(results, field) ==
    IF results = <<>> THEN 0 ELSE results[1][field] + SumOver(Tail(results), field)

RECURSIVE EventsOver(_)
\* the events of the sub-results, in order
EventsOver(results) ==
    IF results = <<>> THEN <<>> ELSE results[1].events \o EventsOver(Tail(results))

\* venue_scrapers.fetch(); pages: the page of every venue of VENUES that has
\* a web calendar, in the order of VENUES
venue_scrapers_fetch(pages, day) ==
    LET scraped == SelectSeq(VENUES, LAMBDA v : ~SkipVenue(v))
        sub_results == [i \in 1..Len(scraped) |-> _scrape_venue(scraped[i], pages[i], day)]
        failures == SelectSeq(sub_results, LAMBDA r : ~r.success)
        successes == SelectSeq(sub_results, LAMBDA r : r.success)
        result == [SourceResult(S_VenueWebsites) EXCEPT
                      !.events_found = SumOver(sub_results, "events_found"),
                      !.events = EventsOver(sub_results),
                      !.events_filtered = SumOver(sub_results, "events_filtered")]
        named == IF failures # <<>>
                 THEN [result EXCEPT !.error_message =
                         <<<<"S","o","m","e"," ","v","e","n","u","e","s"," ","f","a","i","l","e","d",":"," ">> \o
                           JoinComma([i \in 1..Len(failures) |-> failures[i].source_name])>>]
                 ELSE result
    IN  [named EXCEPT !.success = Len(successes) > 0 \/ Len(failures) = 0]

\* SourceResult(source_name=..., success=False, error_message=f"Unhandled exception: ...")
Unhandled(source_name) ==
    [SourceResult(source_name) EXCEPT !.success = FALSE, !.error_message = <<M_Unhandled>>]

\* a run that goes on to STEP 4 whatever dry_run is
AfterGenerate_always_write(dry) == "write"

\* if dry_run: ... return; the section run goes to after generate_html
AfterGenerate(dry) == IF dry THEN "done" ELSE "write"

\* the inputs of ticketmaster.fetch of the runs
TicketmasterInputs ==
    { [api_key |-> FALSE, response |-> [kind |-> "request_failed"]],
      [api_key |-> TRUE, response |-> [kind |-> "request_failed"]],
      [api_key |-> TRUE, response |->
         [kind |-> "events", raw |->
            << [kind |-> "event", event |->
                  Event(S_LuceroGuests, S_MinglewoodHall, 1, Some(S_8PM), S_Ticketmaster, Some(S_url_x))],
               [kind |-> "filtered"],
               [kind |-> "event", event |->
                  Event(S_AlGreen, S_HiTone, 9, NoneStr, S_Ticketmaster, Some(S_url_x))] >>]] }

\* the rows of the manual table of the runs
SheetRows ==
    << Row(JDate(1), S_Lucero, S_minglewood, <<>>, <<>>),
       Row(JStr(S_soon), S_AlGreen, S_HiTone, S_9PM, <<>>) >>

\* the inputs of google_sheet.fetch of the runs
GoogleSheetInputs ==
    { [sheet_url |-> FALSE, sheet |-> [kind |-> "failed"], local_csv |-> [kind |-> "missing"]],
      [sheet_url |-> TRUE, sheet |-> [kind |-> "csv", rows |-> SheetRows],
       local_csv |-> [kind |-> "missing"]],
      [sheet_url |-> TRUE, sheet |-> [kind |-> "failed"],
       local_csv |-> [kind |-> "csv", rows |-> SheetRows]] }

\* all_source_results.append(result); all_events.extend(result.events)
Collect(result) ==
    /\ all_source_results' = Append(all_source_results, result)
    /\ all_events' = all_events \o result.events

\* an exception leaves run
Crash(exc) ==
    /\ pc' = "crashed"
    /\ error' = exc
    /\ UNCHANGED <<otherVars, runs, dry_run, today, cache_file, files, cache, all_source_results,
                   all_events, venue_i, deduped, calls, from_cache>>

\* cache = _load_cache()
LoadCache ==
    /\ pc = "start"
    /\ cache' = _load_cache(cache_file)
    /\ pc' = "ticketmaster"
    /\ UNCHANGED <<otherVars, runs, dry_run, today, cache_file, files, all_source_results, all_events,
                   venue_i, deduped, calls, from_cache, error>>

\* what the lookup of a cacheable source in the cache gives: the exception
\* raised by _is_cached_today or _events_from_cache, [hit |-> FALSE], or
\* [hit |-> TRUE, result |-> the cached result]
CacheLookup(cache_, source_name, day) ==
    LET is_cached == _is_cached_today(cache_, source_name, day)
    IN  IF Raised(is_cached) THEN is_cached
        ELSE IF ~is_cached.val THEN Return([hit |-> FALSE])
        ELSE LET cached == _events_from_cache(cache_, source_name, day)
             IN  IF Raised(cached) THEN cached
                 ELSE Return([hit |-> TRUE, result |-> cached.val])

\* Ticketmaster: if _is_cached_today(...): result = _events_from_cache(...)
TicketmasterCached ==
    /\ pc = "ticketmaster"
    /\ LET found == CacheLookup(cache, S_Ticketmaster, today)
       IN  /\ ~Raised(found)
           /\ found.val.hit
           /\ Collect(found.val.result)
    /\ from_cache' = from_cache \cup {S_Ticketmaster}
    /\ pc' = "google_sheet"
    /\ UNCHANGED <<otherVars, runs, dry_run, today, cache_file, files, cache, venue_i, deduped, calls, error>>

\* Ticketmaster: the cache lookup raises, outside of any try
TicketmasterCacheError ==
    /\ pc = "ticketmaster"
    /\ LET found == CacheLookup(cache, S_Ticketmaster, today)
       IN  /\ Raised(found)
           /\ Crash(found.exc)

\* Ticketmaster: result = ticketmaster.fetch(); _cache_source_result(...)
TicketmasterFetch(input) ==
    /\ pc = "ticketmaster"
    /\ LET found == CacheLookup(cache, S_Ticketmaster, today)
           result == ticketmaster_fetch(input.api_key, input.response)
       IN  /\ ~Raised(found)
           /\ ~found.val.hit
           /\ cache' = _cache_source_result(cache, result.source_name, result, today)
           /\ Collect(result)
    /\ calls' = Append(calls, [adapter |-> "ticketmaster", source |-> S_Ticketmaster, input |-> input,
                               raised |-> FALSE])
    /\ pc' = "google_sheet"
    /\ UNCHANGED <<otherVars, runs, dry_run, today, cache_file, files, venue_i, deduped, from_cache, error>>

\* Ticketmaster: ticketmaster.fetch() raises
TicketmasterRaise ==
    /\ pc = "ticketmaster"
    /\ LET found == CacheLookup(cache, S_Ticketmaster, today)
       IN  /\ ~Raised(found)
           /\ ~found.val.hit
    /\ Collect(Unhandled(S_Ticketmaster))
    /\ calls' = Append(calls, [adapter |-> "ticketmaster", source |-> S_Ticketmaster,
                               raised |-> TRUE])
    /\ pc' = "google_sheet"
    /\ UNCHANGED <<otherVars, runs, dry_run, today, cache_file, files, cache, venue_i, deduped, from_cache, error>>

\* Google Sheet: result = google_sheet.fetch()
GoogleSheetFetch(input) ==
    /\ pc = "google_sheet"
    /\ Collect(google_sheet_fetch(input.sheet_url, input.sheet, input.local_csv, today))
    /\ calls' = Append(calls, [adapter |-> "google_sheet", source |-> S_GoogleSheet, input |-> input,
                               raised |-> FALSE])
    /\ pc' = "artifacts"
    /\ UNCHANGED <<otherVars, runs, dry_run, today, cache_file, files, cache, venue_i, deduped, from_cache, error>>

\* Google Sheet: google_sheet.fetch() raises
GoogleSheetRaise ==
    /\ pc = "google_sheet"
    /\ Collect(Unhandled(S_GoogleSheet))
    /\ calls' = Append(calls, [adapter |-> "google_sheet", source |-> S_GoogleSheet,
                               raised |-> TRUE])
    /\ pc' = "artifacts"
    /\ UNCHANGED <<otherVars, runs, dry_run, today, cache_file, files, cache, venue_i, deduped, from_cache, error>>

\* Artifacts: artifacts.fetch(cache) is a call with one argument of a function
\* that takes none: a TypeError, caught
Artifacts ==
    /\ pc = "artifacts"
    /\ Collect(Unhandled(S_Artifacts))
    /\ calls' = Append(calls, [adapter |-> "artifacts", source |-> S_Artifacts, raised |-> TRUE])
    /\ pc' = "venues"
    /\ venue_i' = 1
    /\ UNCHANGED <<otherVars, runs, dry_run, today, cache_file, files, cache, deduped, from_cache, error>>

\* the except clause around the venue loop
VenueLoopFails ==
    /\ all_source_results' = Append(all_source_results, Unhandled(S_VenueWebsites))
    /\ pc' = "dedup"
    /\ UNCHANGED <<otherVars, runs, dry_run, today, cache_file, files, cache, all_events, venue_i,
                   deduped, from_cache, error>>

\* venue loop: a venue without a web calendar
VenueSkip ==
    /\ pc = "venues"
    /\ venue_i <= Len(VENUES)
    /\ SkipVenue(VENUES[venue_i])
    /\ venue_i' = venue_i + 1
    /\ UNCHANGED <<otherVars, runs, pc, dry_run, today, cache_file, files, cache, all_source_results,
                   all_events, deduped, calls, from_cache, error>>

\* venue loop: vr = _events_from_cache(cache, source_key)
VenueCached ==
    /\ pc = "venues"
    /\ venue_i <= Len(VENUES)
    /\ ~SkipVenue(VENUES[venue_i])
    /\ LET found == CacheLookup(cache, SourceKey(VENUES[venue_i]), today)
       IN  /\ ~Raised(found)
           /\ found.val.hit
           /\ Collect(found.val.result)
    /\ from_cache' = from_cache \cup {SourceKey(VENUES[venue_i])}
    /\ venue_i' = venue_i + 1
    /\ UNCHANGED <<otherVars, runs, pc, dry_run, today, cache_file, files, cache, deduped, calls, error>>

\* venue loop: the cache lookup raises, inside the try around the loop
VenueCacheError ==
    /\ pc = "venues"
    /\ venue_i <= Len(VENUES)
    /\ ~SkipVenue(VENUES[venue_i])
    /\ Raised(CacheLookup(cache, SourceKey(VENUES[venue_i]), today))
    /\ VenueLoopFails
    /\ UNCHANGED calls

\* venue loop: vr = venue_scrapers.scrape_venue(venue_key, venue_info); the
\* module venue_scrapers has no attribute scrape_venue (it defines
\* _scrape_venue): an AttributeError, caught by the except around the loop
VenueScrape ==
    /\ pc = "venues"
    /\ venue_i <= Len(VENUES)
    /\ ~SkipVenue(VENUES[venue_i])
    /\ LET found == CacheLookup(cache, SourceKey(VENUES[venue_i]), today)
       IN  /\ ~Raised(found)
           /\ ~found.val.hit
    /\ calls' = Append(calls, [adapter |-> "scrape_venue",
                               source |-> SourceKey(VENUES[venue_i]), raised |-> TRUE])
    /\ VenueLoopFails

\* venue loop: after the last venue
VenuesDone ==
    /\ pc = "venues"
    /\ venue_i > Len(VENUES)
    /\ pc' = "dedup"
    /\ UNCHANGED <<otherVars, runs, dry_run, today, cache_file, files, cache, all_source_results,
                   all_events, venue_i, deduped, calls, from_cache, error>>

\* deduped = deduplicate(all_events); html = generate_html(...); and, in a
\* dry run, the summary and the return
Deduplicate ==
    /\ pc = "dedup"
    /\ deduped' = deduplicate(all_events)
    /\ pc' = AfterGenerate(dry_run)
    /\ UNCHANGED <<otherVars, runs, dry_run, today, cache_file, files, cache, all_source_results,
                   all_events, venue_i, calls, from_cache, error>>

\* STEP 4: index.html, log.json, build_time.txt, then _save_cache(cache)
WriteOutput ==
    /\ pc = "write"
    /\ files' = [index_html |-> "written", log_json |-> "written", build_time |-> "written"]
    /\ cache_file' = _save_cache(cache, today)
    /\ pc' = "done"
    /\ UNCHANGED <<otherVars, runs, dry_run, today, cache, all_source_results, all_events, venue_i,
                   deduped, calls, from_cache, error>>

\* -- the cache files the runs start from -----------------------------------

\* the events of a well-formed cache entry: one inside the date range of the
\* day, one after it
EntryEvents(source_name, day) ==
    << Event(S_NorthMississippiAllstars, S_HiTone, day + 1, Some(S_9PM), source_name, NoneStr),
       Event(S_AlGreen, S_HiTone, day + 9, NoneStr, source_name, Some(S_url_x)) >>

\* an entry as _cache_source_result wrote it on the day
WrittenEntry(source_name, day, success) ==
    CacheEntry([SourceResult(source_name) EXCEPT
                  !.success = success,
                  !.events = IF success THEN EntryEvents(source_name, day) ELSE <<>>,
                  !.events_found = IF success THEN 3 ELSE 0,
                  !.events_filtered = IF success THEN 1 ELSE 0,
                  !.error_message = IF success THEN <<>> ELSE <<M_ApiRequestFailed>>], day)

\* the entries a cache file may hold for a source, by kind
PoolEntry(kind, source_name, day) ==
    CASE kind = "fresh" -> WrittenEntry(source_name, day, TRUE)
      [] kind = "stale" -> WrittenEntry(source_name, day - 1, TRUE)
      [] kind = "failed" -> WrittenEntry(source_name, day, FALSE)
      [] kind = "notdict" -> JStr(S_soon)
      [] kind = "nolist" ->
            JDict([JVal(WrittenEntry(source_name, day, TRUE)) EXCEPT !.events = JNull])
      [] kind = "baditem" ->
            JDict([JVal(WrittenEntry(source_name, day, TRUE)) EXCEPT !.events = JList(<<JNull>>)])
      [] kind = "skipitems" ->
            JDict([JVal(WrittenEntry(source_name, day, TRUE)) EXCEPT !.events =
               JList(<< JDict([artist |-> JStr(S_AlGreen), venue |-> JStr(S_HiTone)]),
                        JDict([artist |-> JStr(S_AlGreen), venue |-> JStr(S_HiTone),
                               date |-> JStr(S_soon)]),
                        JDict([venue |-> JStr(S_HiTone), date |-> JDate(day + 1)]),
                        EventDict(EntryEvents(source_name, day)[1]) >>)])

\* the source names a cache file of the pool may have entries for
CacheKeys ==
    {S_Ticketmaster, S_ManualSheet} \cup {SourceKey(WebVenues[i]) : i \in 1..MaxVenues}

\* the kinds of entry the pool holds for a source name
EntryKinds(source_name) ==
    IF source_name = S_Ticketmaster
    THEN {"absent", "fresh", "stale", "failed", "notdict", "nolist", "baditem", "skipitems"}
    ELSE IF source_name = S_ManualSheet
    THEN {"absent", "fresh"}
    ELSE {"absent", "fresh", "stale", "failed", "baditem"}

\* the cache dicts with a "sources" dict
WellShapedCaches(day) ==
    { JDict([cache_date |-> JDate(day - 1),
             sources |-> JDict([k \in {k \in CacheKeys : kinds[k] # "absent"} |->
                                  PoolEntry(kinds[k], k, day)]),
             artifact_hashes |-> JDict(EmptyDict),
             artifact_events |-> JDict(EmptyDict)]) :
        kinds \in {f \in [CacheKeys -> {"absent", "fresh", "stale", "failed", "notdict",
                                        "nolist", "baditem", "skipitems"}] :
                     \A k \in CacheKeys : f[k] \in EntryKinds(k)} }

\* the contents of docs/source_cache.json a run may find
CacheFilePool(day) ==
    { FileMissing, FileNotJson,
      FileJson(JList(<<>>)),
      FileJson(JDict([cache_date |-> JDate(day)])),
      FileJson(JDict([sources |-> JNull])),
      FileJson(JDict([sources |-> JList(<<>>)])) }
    \cup {FileJson(c) : c \in WellShapedCaches(day)}

CallIdle ==
    /\ fn_call = [fn |-> "none"]
    /\ fn_result = <<>>
    /\ fn_done = FALSE

DedupIdle ==
    /\ dd_events = <<>>
    /\ dd_result = <<>>
    /\ dd_done = FALSE

ScriptsIdle ==
    /\ s_pc = "idle"
    /\ fetch_i = 0
    /\ invoked = <<>>
    /\ s_all_events = <<>>
    /\ source_status = <<>>
    /\ music_events = <<>>
    /\ unique_events = <<>>
    /\ events_by_date = <<>>
    /\ outputs = [index_html |-> "old", status_json |-> "old"]

MainIdle ==
    /\ pc = "idle"
    /\ dry_run = FALSE
    /\ today = 0
    /\ cache_file = FileMissing
    /\ files = [index_html |-> "old", log_json |-> "old", build_time |-> "old"]
    /\ cache = JNull
    /\ all_source_results = <<>>
    /\ all_events = <<>>
    /\ venue_i = 0
    /\ deduped = <<>>
    /\ calls = <<>>
    /\ from_cache = {}
    /\ error = ""
    /\ runs = <<>>

\* run(dry_run) is called, with the files an earlier run may have left
Init ==
    /\ pc = "start"
    /\ dry_run \in BOOLEAN
    /\ today = 0
    /\ cache_file \in CacheFilePool(0)
    /\ files = [index_html |-> "old", log_json |-> "old", build_time |-> "old"]
    /\ cache = JNull
    /\ all_source_results = <<>>
    /\ all_events = <<>>
    /\ venue_i = 0
    /\ deduped = <<>>
    /\ calls = <<>>
    /\ from_cache = {}
    /\ error = ""
    /\ runs = <<>>
    /\ DedupIdle
    /\ ScriptsIdle
    /\ CallIdle

Next ==
    \/ LoadCache
    \/ TicketmasterCached
    \/ TicketmasterCacheError
    \/ \E input \in TicketmasterInputs : TicketmasterFetch(input)
    \/ TicketmasterRaise
    \/ \E input \in GoogleSheetInputs : GoogleSheetFetch(input)
    \/ GoogleSheetRaise
    \/ Artifacts
    \/ VenueSkip
    \/ VenueCached
    \/ VenueCacheError
    \/ VenueScrape
    \/ VenuesDone
    \/ Deduplicate
    \/ WriteOutput

Spec == Init /\ [][Next]_vars

\* -- successive executions of run(dry_run=False) on one checkout -----------

\* the number of executions in a row
MaxRuns == 3

\* the last day an execution starts on; the first starts on day 0
LastDay == 1

\* the cacheable sources whose adapter returned a result with success = true
\* in the execution at hand
FetchedOk ==
    {c.source : c \in {c \in Range(calls) :
        /\ c.adapter = "ticketmaster"
        /\ ~c.raised
        /\ ticketmaster_fetch(c.input.api_key, c.input.response).success}}

\* a cache dict with the given entries, by kind, for the venues with a web
\* calendar and for Ticketmaster
CacheOfKinds(ticketmaster_kind, venue_kind, day) ==
    JDict([cache_date |-> JDate(day - 1),
           sources |-> JDict([k \in {k \in {S_Ticketmaster} : ticketmaster_kind # "absent"}
                                      \cup {SourceKey(WebVenues[i]) : i \in 1..MaxVenues} |->
                                 IF k = S_Ticketmaster
                                 THEN PoolEntry(ticketmaster_kind, k, day)
                                 ELSE PoolEntry(venue_kind[k], k, day)]),
           artifact_hashes |-> JDict(EmptyDict),
           artifact_events |-> JDict(EmptyDict)])

\* the contents of docs/source_cache.json the first execution may find: no
\* file, entries of the day for every venue, a broken entry for a venue, and
\* a Ticketmaster entry that is no dict
FirstCacheFiles ==
    LET venues == {SourceKey(WebVenues[i]) : i \in 1..MaxVenues}
    IN  { FileMissing,
          FileJson(CacheOfKinds("absent", [k \in venues |-> "fresh"], 0)),
          FileJson(CacheOfKinds("stale", [k \in venues |->
                       IF k = SourceKey(WebVenues[1]) THEN "fresh" ELSE "baditem"], 0)),
          FileJson(CacheOfKinds("notdict", [k \in venues |-> "stale"], 0)) }

\* main.py is run without --dry-run
RerunInit ==
    /\ pc = "start"
    /\ dry_run = FALSE
    /\ today = 0
    /\ cache_file \in FirstCacheFiles
    /\ files = [index_html |-> "old", log_json |-> "old", build_time |-> "old"]
    /\ cache = JNull
    /\ all_source_results = <<>>
    /\ all_events = <<>>
    /\ venue_i = 0
    /\ deduped = <<>>
    /\ calls = <<>>
    /\ from_cache = {}
    /\ error = ""
    /\ runs = <<>>
    /\ DedupIdle
    /\ ScriptsIdle
    /\ CallIdle

\* the execution has ended, by its return or by an exception, and main.py
\* is run again on that day or on the next; the files in docs/ are those
\* the executions before left
NextRun(day) ==
    /\ pc \in {"done", "crashed"}
    /\ Len(runs) + 1 < MaxRuns
    /\ day <= LastDay
    /\ runs' = Append(runs, [day |-> today, saved |-> pc = "done", fetched |-> FetchedOk])
    /\ today' = day
    /\ pc' = "start"
    /\ cache' = JNull
    /\ all_source_results' = <<>>
    /\ all_events' = <<>>
    /\ venue_i' = 0
    /\ deduped' = <<>>
    /\ calls' = <<>>
    /\ from_cache' = {}
    /\ error' = ""
    /\ UNCHANGED <<otherVars, dry_run, cache_file, files>>

RerunNext ==
    \/ LoadCache
    \/ TicketmasterCached
    \/ TicketmasterCacheError
    \/ \E input \in TicketmasterInputs : TicketmasterFetch(input)
    \/ TicketmasterRaise
    \/ \E input \in GoogleSheetInputs : GoogleSheetFetch(input)
    \/ GoogleSheetRaise
    \/ Artifacts
    \/ VenueSkip
    \/ VenueCached
    \/ VenueCacheError
    \/ VenueScrape
    \/ VenuesDone
    \/ Deduplicate
    \/ WriteOutput
    \/ \E day \in {today, today + 1} : NextRun(day)

RerunSpec == RerunInit /\ [][RerunNext]_vars

\* ------------------------------------------------------------------------
\* src/scripts: sources/__init__.py, utils/filter.py, utils/dedup.py,
\* utils/formatter.py
\*
\* The date of an Event is a datetime: <<day number, minute of the day>>.
\* ------------------------------------------------------------------------

\* scripts/sources/__init__.py Event
ScriptsEvent(artist, venue, date, time, source, url, raw_title) ==
    [artist |-> artist, venue |-> venue, date |-> date, time |-> time,
     source |-> source, url |-> url, raw_title |-> raw_title]

\* x or "" on an Optional[str]
OrEmpty(o) == IF o = <<>> THEN <<>> ELSE o[1]

\* scripts/sources/__init__.py MUSIC_KEYWORDS
SCRIPTS_MUSIC_KEYWORDS ==
    { <<"c","o","n","c","e","r","t">>,  \* "concert"
      <<"l","i","v","e"," ","m","u","s","i","c">>,  \* "live music"
      <<"b","a","n","d">>,  \* "band"
      <<"d","j">>,  \* "dj"
      <<"d","a","n","c","e"," ","n","i","g","h","t">>,  \* "dance night"
      <<"e","l","e","c","t","r","o","n","i","c">>,  \* "electronic"
      <<"h","i","p"," ","h","o","p">>,  \* "hip hop"
      <<"h","i","p","-","h","o","p">>,  \* "hip-hop"
      <<"r","a","p">>,  \* "rap"
      <<"r","&","b">>,  \* "r&b"
      <<"s","o","u","l">>,  \* "soul"
      <<"b","l","u","e","s">>,  \* "blues"
      <<"j","a","z","z">>,  \* "jazz"
      <<"r","o","c","k">>,  \* "rock"
      <<"m","e","t","a","l">>,  \* "metal"
      <<"p","u","n","k">>,  \* "punk"
      <<"f","o","l","k">>,  \* "folk"
      <<"c","o","u","n","t","r","y">>,  \* "country"
      <<"g","o","s","p","e","l">>,  \* "gospel"
      <<"s","i","n","g","e","r">>,  \* "singer"
      <<"s","o","n","g","w","r","i","t","e","r">>,  \* "songwriter"
      <<"o","p","e","n"," ","m","i","c">>,  \* "open mic"
      <<"k","a","r","a","o","k","e">>,  \* "karaoke"
      <<"a","c","o","u","s","t","i","c">>,  \* "acoustic"
      <<"t","r","i","b","u","t","e">>,  \* "tribute"
      <<"a","l","b","u","m"," ","r","e","l","e","a","s","e">>,  \* "album release"
      <<"r","e","c","o","r","d"," ","r","e","l","e","a","s","e">>,  \* "record release"
      <<"l","i","s","t","e","n","i","n","g"," ","p","a","r","t","y">>,  \* "listening party"
      <<"m","u","s","i","c"," ","f","e","s","t","i","v","a","l">>,  \* "music festival"
      <<"r","a","v","e">>,  \* "rave"
      <<"h","o","u","s","e"," ","m","u","s","i","c">>,  \* "house music"
      <<"t","e","c","h","n","o">>,  \* "techno"
      <<"f","u","n","k">>,  \* "funk"
      <<"r","e","g","g","a","e">>,  \* "reggae"
      <<"s","k","a">>,  \* "ska"
      <<"o","r","c","h","e","s","t","r","a">>,  \* "orchestra"
      <<"s","y","m","p","h","o","n","y">>,  \* "symphony"
      <<"o","p","e","r","a">>,  \* "opera"
      <<"c","h","a","m","b","e","r">>,  \* "chamber"
      <<"c","l","a","s","s","i","c","a","l">>,  \* "classical"
      <<"t","o","u","r">>,  \* "tour"
      <<"w","o","r","l","d"," ","t","o","u","r">>,  \* "world tour"
      <<"r","e","s","i","d","e","n","c","y">>,  \* "residency"
      <<"v","i","n","y","l">>,  \* "vinyl"
      <<"b","e","a","t">>,  \* "beat"
      <<"p","r","o","d","u","c","e","r">>,  \* "producer"
      <<"m","c"," ">>,  \* "mc "
      <<"e","m","c","e","e">>,  \* "emcee"
      <<"f","e","a","t",".">>,  \* "feat."
      <<"f","t",".">>,  \* "ft."
      <<"w","/">>,  \* "w/"
      <<"w","i","t","h"," ","s","p","e","c","i","a","l"," ","g","u","e","s","t">> }  \* "with special guest"

\* scripts/sources/__init__.py NON_MUSIC_KEYWORDS
NON_MUSIC_KEYWORDS ==
    { <<"c","o","m","e","d","y">>,  \* "comedy"
      <<"s","t","a","n","d","-","u","p">>,  \* "stand-up"
      <<"s","t","a","n","d","u","p">>,  \* "standup"
      <<"s","t","a","n","d"," ","u","p">>,  \* "stand up"
      <<"c","o","m","e","d","i","a","n">>,  \* "comedian"
      <<"p","l","a","y">>,  \* "play"
      <<"t","h","e","a","t","r","e">>,  \* "theatre"
      <<"t","h","e","a","t","e","r">>,  \* "theater"
      <<"m","u","s","i","c","a","l"," ","t","h","e","a","t","r","e">>,  \* "musical theatre"
      <<"b","r","o","a","d","w","a","y">>,  \* "broadway"
      <<"a","r","t"," ","o","p","e","n","i","n","g">>,  \* "art opening"
      <<"a","r","t"," ","s","h","o","w">>,  \* "art show"
      <<"g","a","l","l","e","r","y">>,  \* "gallery"
      <<"e","x","h","i","b","i","t","i","o","n">>,  \* "exhibition"
      <<"e","x","h","i","b","i","t">>,  \* "exhibit"
      <<"p","o","e","t","r","y"," ","r","e","a","d","i","n","g">>,  \* "poetry reading"
      <<"b","o","o","k"," ","s","i","g","n","i","n","g">>,  \* "book signing"
      <<"b","o","o","k"," ","r","e","a","d","i","n","g">>,  \* "book reading"
      <<"a","u","t","h","o","r">>,  \* "author"
      <<"t","r","i","v","i","a">>,  \* "trivia"
      <<"b","i","n","g","o">>,  \* "bingo"
      <<"g","a","m","e"," ","n","i","g","h","t">>,  \* "game night"
      <<"p","u","b"," ","q","u","i","z">>,  \* "pub quiz"
      <<"b","r","u","n","c","h">>,  \* "brunch"
      <<"f","o","o","d">>,  \* "food"
      <<"t","a","s","t","i","n","g">>,  \* "tasting"
      <<"w","i","n","e"," ","t","a","s","t","i","n","g">>,  \* "wine tasting"
      <<"b","e","e","r"," ","t","a","s","t","i","n","g">>,  \* "beer tasting"
      <<"y","o","g","a">>,  \* "yoga"
      <<"f","i","t","n","e","s","s">>,  \* "fitness"
      <<"r","u","n"," ","c","l","u","b">>,  \* "run club"
      <<"5","k">>,  \* "5k"
      <<"m","a","r","a","t","h","o","n">>,  \* "marathon"
      <<"w","o","r","k","s","h","o","p">>,  \* "workshop"
      <<"c","l","a","s","s">>,  \* "class"
      <<"s","e","m","i","n","a","r">>,  \* "seminar"
      <<"l","e","c","t","u","r","e">>,  \* "lecture"
      <<"c","o","n","f","e","r","e","n","c","e">>,  \* "conference"
      <<"f","u","n","d","r","a","i","s","e","r"," ","g","a","l","a">>,  \* "fundraiser gala"
      <<"a","u","c","t","i","o","n">>,  \* "auction"
      <<"n","e","t","w","o","r","k","i","n","g">>,  \* "networking"
      <<"d","r","a","g"," ","b","r","u","n","c","h">>,  \* "drag brunch"
      <<"d","r","a","g"," ","s","h","o","w">>,  \* "drag show"
      <<"m","o","v","i","e">>,  \* "movie"
      <<"f","i","l","m"," ","s","c","r","e","e","n","i","n","g">>,  \* "film screening"
      <<"d","o","c","u","m","e","n","t","a","r","y">> }  \* "documentary"

\* scripts/utils/filter.py MUSIC_ONLY_VENUES
MUSIC_ONLY_VENUES ==
    { <<"B","-","S","i","d","e"," ","M","e","m","p","h","i","s">>,  \* "B-Side Memphis"
      <<"B",".","B","."," ","K","i","n","g","'","s"," ","B","l","u","e","s"," ","C","l","u","b">>,  \* "B.B. King's Blues Club"
      <<"B","a","r"," ","D","K","D","C">>,  \* "Bar DKDC"
      <<"G","r","a","c","e","l","a","n","d"," ","S","o","u","n","d","s","t","a","g","e">>,  \* "Graceland Soundstage"
      <<"G","r","o","w","l","e","r","s">>,  \* "Growlers"
      <<"H","e","r","n","a","n","d","o","'","s"," ","H","i","d","e","a","w","a","y">>,  \* "Hernando's Hideaway"
      <<"H","i"," ","T","o","n","e">>,  \* "Hi Tone"
      <<"L","a","f","a","y","e","t","t","e","'","s"," ","M","u","s","i","c"," ","R","o","o","m">>,  \* "Lafayette's Music Room"
      <<"M","i","n","g","l","e","w","o","o","d"," ","H","a","l","l">>,  \* "Minglewood Hall"
      <<"T","i","n"," ","R","o","o","f"," ","M","e","m","p","h","i","s">>,  \* "Tin Roof Memphis"
      <<"Y","o","u","n","g"," ","A","v","e","n","u","e"," ","D","e","l","i">> }  \* "Young Avenue Deli"

\* scripts/utils/filter.py MIXED_VENUES
MIXED_VENUES ==
    { <<"C","r","o","s","s","t","o","w","n"," ","A","r","t","s">>,  \* "Crosstown Arts"
      <<"C","r","o","s","s","t","o","w","n"," ","A","r","t","s"," ","G","r","e","e","n"," ","R","o","o","m">>,  \* "Crosstown Arts Green Room"
      <<"F","e","d","E","x","F","o","r","u","m">>,  \* "FedExForum"
      <<"O","r","p","h","e","u","m"," ","T","h","e","a","t","r","e">>,  \* "Orpheum Theatre"
      <<"O","v","e","r","t","o","n"," ","P","a","r","k"," ","S","h","e","l","l">>,  \* "Overton Park Shell"
      <<"R","a","i","l","g","a","r","t","e","n">> }  \* "Railgarten"

\* scripts/utils/dedup.py SOURCE_PRIORITY, in the order of the dict
SOURCE_PRIORITY ==
    << <<<<"G","o","o","g","l","e"," ","S","h","e","e","t","s">>, 10>>,  \* "Google Sheets": 10
       <<<<"M","a","n","u","a","l"," ","C","S","V">>, 10>>,  \* "Manual CSV": 10
       <<<<"V","e","n","u","e",":">>, 9>>,  \* "Venue:": 9
       <<<<"M","e","m","p","h","i","s"," ","F","l","y","e","r">>, 7>>,  \* "Memphis Flyer": 7
       <<<<"D","I","C","E">>, 6>>,  \* "DICE": 6
       <<<<"B","a","n","d","s","i","n","t","o","w","n">>, 5>>,  \* "Bandsintown": 5
       <<<<"T","i","c","k","e","t","m","a","s","t","e","r">>, 5>>,  \* "Ticketmaster": 5
       <<<<"E","v","e","n","t","b","r","i","t","e">>, 4>> >>  \* "Eventbrite": 4

\* the prefixes _normalize_for_dedup removes, in order
DedupPrefixes ==
    << <<"t","h","e"," ">>,  \* "the "
       <<"a"," ">>,  \* "a "
       <<"a","n"," ">>,  \* "an "
       <<"d","j"," ">> >>  \* "dj "

\* the suffixes _normalize_for_dedup removes, in order
DedupSuffixes ==
    << <<" ","b","a","n","d">>,  \* " band"
       <<" ","t","r","i","o">>,  \* " trio"
       <<" ","q","u","a","r","t","e","t">>,  \* " quartet"
       <<" ","q","u","i","n","t","e","t">>,  \* " quintet"
       <<" ","e","n","s","e","m","b","l","e">>,  \* " ensemble"
       <<" ","o","r","c","h","e","s","t","r","a">> >>  \* " orchestra"


\* scripts/sources/__init__.py VENUE_ALIASES, in the order of the dict
VENUE_ALIASES ==
    << <<<<"h","i"," ","t","o","n","e">>, <<"H","i"," ","T","o","n","e">>>>,  \* "hi tone": "Hi Tone"
       <<<<"h","i","-","t","o","n","e">>, <<"H","i"," ","T","o","n","e">>>>,  \* "hi-tone": "Hi Tone"
       <<<<"h","i"," ","t","o","n","e"," ","c","a","f","e">>, <<"H","i"," ","T","o","n","e">>>>,  \* "hi tone cafe": "Hi Tone"
       <<<<"h","i","-","t","o","n","e"," ","c","a","f","e">>, <<"H","i"," ","T","o","n","e">>>>,  \* "hi-tone cafe": "Hi Tone"
       <<<<"h","i","-","t","o","n","e"," ","c","a","f","é">>, <<"H","i"," ","T","o","n","e">>>>,  \* "hi-tone café": "Hi Tone"
       <<<<"m","i","n","g","l","e","w","o","o","d"," ","h","a","l","l">>, <<"M","i","n","g","l","e","w","o","o","d"," ","H","a","l","l">>>>,  \* "minglewood hall": "Minglewood Hall"
       <<<<"m","i","n","g","l","e","w","o","o","d">>, <<"M","i","n","g","l","e","w","o","o","d"," ","H","a","l","l">>>>,  \* "minglewood": "Minglewood Hall"
       <<<<"g","r","o","w","l","e","r","s">>, <<"G","r","o","w","l","e","r","s">>>>,  \* "growlers": "Growlers"
       <<<<"g","r","o","w","l","e","r","s"," ","b","a","r">>, <<"G","r","o","w","l","e","r","s">>>>,  \* "growlers bar": "Growlers"
       <<<<"h","e","r","n","a","n","d","o","'","s"," ","h","i","d","e","a","w","a","y">>, <<"H","e","r","n","a","n","d","o","'","s"," ","H","i","d","e","a","w","a","y">>>>,  \* "hernando's hideaway": "Hernando's Hideaway"
       <<<<"h","e","r","n","a","n","d","o","s"," ","h","i","d","e","a","w","a","y">>, <<"H","e","r","n","a","n","d","o","'","s"," ","H","i","d","e","a","w","a","y">>>>,  \* "hernandos hideaway": "Hernando's Hideaway"
       <<<<"h","e","r","n","a","n","d","o","'","s"," ","h","i","d","e","-","a","-","w","a","y">>, <<"H","e","r","n","a","n","d","o","'","s"," ","H","i","d","e","a","w","a","y">>>>,  \* "hernando's hide-a-way": "Hernando's Hideaway"
       <<<<"c","r","o","s","s","t","o","w","n"," ","a","r","t","s">>, <<"C","r","o","s","s","t","o","w","n"," ","A","r","t","s">>>>,  \* "crosstown arts": "Crosstown Arts"
       <<<<"t","h","e"," ","g","r","e","e","n"," ","r","o","o","m">>, <<"C","r","o","s","s","t","o","w","n"," ","A","r","t","s"," ","G","r","e","e","n"," ","R","o","o","m">>>>,  \* "the green room": "Crosstown Arts Green Room"
       <<<<"c","r","o","s","s","t","o","w","n"," ","a","r","t","s"," ","g","r","e","e","n"," ","r","o","o","m">>, <<"C","r","o","s","s","t","o","w","n"," ","A","r","t","s"," ","G","r","e","e","n"," ","R","o","o","m">>>>,  \* "crosstown arts green room": "Crosstown Arts Green Room"
       <<<<"g","r","e","e","n"," ","r","o","o","m"," ","a","t"," ","c","r","o","s","s","t","o","w","n">>, <<"C","r","o","s","s","t","o","w","n"," ","A","r","t","s"," ","G","r","e","e","n"," ","R","o","o","m">>>>,  \* "green room at crosstown": "Crosstown Arts Green Room"
       <<<<"l","a","f","a","y","e","t","t","e","'","s">>, <<"L","a","f","a","y","e","t","t","e","'","s"," ","M","u","s","i","c"," ","R","o","o","m">>>>,  \* "lafayette's": "Lafayette's Music Room"
       <<<<"l","a","f","a","y","e","t","t","e","'","s"," ","m","u","s","i","c"," ","r","o","o","m">>, <<"L","a","f","a","y","e","t","t","e","'","s"," ","M","u","s","i","c"," ","R","o","o","m">>>>,  \* "lafayette's music room": "Lafayette's Music Room"
       <<<<"l","a","f","a","y","e","t","t","e","s">>, <<"L","a","f","a","y","e","t","t","e","'","s"," ","M","u","s","i","c"," ","R","o","o","m">>>>,  \* "lafayettes": "Lafayette's Music Room"
       <<<<"l","a","f","a","y","e","t","t","e","s"," ","m","u","s","i","c"," ","r","o","o","m">>, <<"L","a","f","a","y","e","t","t","e","'","s"," ","M","u","s","i","c"," ","R","o","o","m">>>>,  \* "lafayettes music room": "Lafayette's Music Room"
       <<<<"o","v","e","r","t","o","n"," ","p","a","r","k"," ","s","h","e","l","l">>, <<"O","v","e","r","t","o","n"," ","P","a","r","k"," ","S","h","e","l","l">>>>,  \* "overton park shell": "Overton Park Shell"
       <<<<"t","h","e"," ","s","h","e","l","l">>, <<"O","v","e","r","t","o","n"," ","P","a","r","k"," ","S","h","e","l","l">>>>,  \* "the shell": "Overton Park Shell"
       <<<<"l","e","v","i","t","t"," ","s","h","e","l","l">>, <<"O","v","e","r","t","o","n"," ","P","a","r","k"," ","S","h","e","l","l">>>>,  \* "levitt shell": "Overton Park Shell"
       <<<<"b","b"," ","k","i","n","g","'","s">>, <<"B",".","B","."," ","K","i","n","g","'","s"," ","B","l","u","e","s"," ","C","l","u","b">>>>,  \* "bb king's": "B.B. King's Blues Club"
       <<<<"b",".","b","."," ","k","i","n","g","'","s">>, <<"B",".","B","."," ","K","i","n","g","'","s"," ","B","l","u","e","s"," ","C","l","u","b">>>>,  \* "b.b. king's": "B.B. King's Blues Club"
       <<<<"b","b"," ","k","i","n","g","s">>, <<"B",".","B","."," ","K","i","n","g","'","s"," ","B","l","u","e","s"," ","C","l","u","b">>>>,  \* "bb kings": "B.B. King's Blues Club"
       <<<<"b",".","b","."," ","k","i","n","g","'","s"," ","b","l","u","e","s"," ","c","l","u","b">>, <<"B",".","B","."," ","K","i","n","g","'","s"," ","B","l","u","e","s"," ","C","l","u","b">>>>,  \* "b.b. king's blues club": "B.B. King's Blues Club"
       <<<<"g","r","a","c","e","l","a","n","d"," ","s","o","u","n","d","s","t","a","g","e">>, <<"G","r","a","c","e","l","a","n","d"," ","S","o","u","n","d","s","t","a","g","e">>>>,  \* "graceland soundstage": "Graceland Soundstage"
       <<<<"g","r","a","c","e","l","a","n","d"," ","l","i","v","e">>, <<"G","r","a","c","e","l","a","n","d"," ","S","o","u","n","d","s","t","a","g","e">>>>,  \* "graceland live": "Graceland Soundstage"
       <<<<"f","e","d","e","x","f","o","r","u","m">>, <<"F","e","d","E","x","F","o","r","u","m">>>>,  \* "fedexforum": "FedExForum"
       <<<<"f","e","d","e","x"," ","f","o","r","u","m">>, <<"F","e","d","E","x","F","o","r","u","m">>>>,  \* "fedex forum": "FedExForum"
       <<<<"b","a","r"," ","d","k","d","c">>, <<"B","a","r"," ","D","K","D","C">>>>,  \* "bar dkdc": "Bar DKDC"
       <<<<"d","k","d","c">>, <<"B","a","r"," ","D","K","D","C">>>>,  \* "dkdc": "Bar DKDC"
       <<<<"b","-","s","i","d","e">>, <<"B","-","S","i","d","e"," ","M","e","m","p","h","i","s">>>>,  \* "b-side": "B-Side Memphis"
       <<<<"b","-","s","i","d","e"," ","m","e","m","p","h","i","s">>, <<"B","-","S","i","d","e"," ","M","e","m","p","h","i","s">>>>,  \* "b-side memphis": "B-Side Memphis"
       <<<<"t","h","e"," ","o","r","p","h","e","u","m">>, <<"O","r","p","h","e","u","m"," ","T","h","e","a","t","r","e">>>>,  \* "the orpheum": "Orpheum Theatre"
       <<<<"o","r","p","h","e","u","m">>, <<"O","r","p","h","e","u","m"," ","T","h","e","a","t","r","e">>>>,  \* "orpheum": "Orpheum Theatre"
       <<<<"o","r","p","h","e","u","m"," ","t","h","e","a","t","r","e">>, <<"O","r","p","h","e","u","m"," ","T","h","e","a","t","r","e">>>>,  \* "orpheum theatre": "Orpheum Theatre"
       <<<<"r","a","i","l","g","a","r","t","e","n">>, <<"R","a","i","l","g","a","r","t","e","n">>>>,  \* "railgarten": "Railgarten"
       <<<<"r","a","i","l"," ","g","a","r","t","e","n">>, <<"R","a","i","l","g","a","r","t","e","n">>>>,  \* "rail garten": "Railgarten"
       <<<<"y","o","u","n","g"," ","a","v","e","n","u","e"," ","d","e","l","i">>, <<"Y","o","u","n","g"," ","A","v","e","n","u","e"," ","D","e","l","i">>>>,  \* "young avenue deli": "Young Avenue Deli"
       <<<<"y","o","u","n","g"," ","a","v","e"," ","d","e","l","i">>, <<"Y","o","u","n","g"," ","A","v","e","n","u","e"," ","D","e","l","i">>>>,  \* "young ave deli": "Young Avenue Deli"
       <<<<"t","h","e"," ","w","a","r","e","h","o","u","s","e">>, <<"T","h","e"," ","W","a","r","e","h","o","u","s","e">>>>,  \* "the warehouse": "The Warehouse"
       <<<<"l","i","b","e","r","t","y"," ","b","o","w","l">>, <<"L","i","b","e","r","t","y"," ","B","o","w","l"," ","M","e","m","o","r","i","a","l"," ","S","t","a","d","i","u","m">>>>,  \* "liberty bowl": "Liberty Bowl Memorial Stadium"
       <<<<"l","i","b","e","r","t","y"," ","b","o","w","l"," ","m","e","m","o","r","i","a","l"," ","s","t","a","d","i","u","m">>, <<"L","i","b","e","r","t","y"," ","B","o","w","l"," ","M","e","m","o","r","i","a","l"," ","S","t","a","d","i","u","m">>>>,  \* "liberty bowl memorial stadium": "Liberty Bowl Memorial Stadium"
       <<<<"m","i","d","t","o","w","n"," ","c","r","o","s","s","i","n","g"," ","g","r","i","l","l">>, <<"M","i","d","t","o","w","n"," ","C","r","o","s","s","i","n","g"," ","G","r","i","l","l">>>>,  \* "midtown crossing grill": "Midtown Crossing Grill"
       <<<<"t","i","n"," ","r","o","o","f">>, <<"T","i","n"," ","R","o","o","f"," ","M","e","m","p","h","i","s">>>>,  \* "tin roof": "Tin Roof Memphis"
       <<<<"t","i","n"," ","r","o","o","f"," ","m","e","m","p","h","i","s">>, <<"T","i","n"," ","R","o","o","f"," ","M","e","m","p","h","i","s">>>> >>  \* "tin roof memphis": "Tin Roof Memphis"

\* scripts/sources/__init__.py normalize_venue
normalize_venue(name) ==
    IF name = <<>> THEN <<"U","n","k","n","o","w","n"," ","V","e","n","u","e">>
    ELSE LET lookup == Lower(Strip(name))
             found == {i \in 1..Len(VENUE_ALIASES) : VENUE_ALIASES[i][1] = lookup}
         IN  IF found # {} THEN VENUE_ALIASES[CHOOSE i \in found : TRUE][2]
             ELSE Strip(name)

\* any(kw in text for kw in keywords)
AnyIn(keywords, text) == \E kw \in keywords : Contains(text, kw)

\* variant: the music-specific sources are trusted before the keywords are
\* looked at
_is_music_event_source_first(event) ==
    LET combined == Lower(event.artist) \o <<" ">> \o Lower(OrEmpty(event.raw_title))
    IN  IF event.source \in {<<"G","o","o","g","l","e"," ","S","h","e","e","t","s">>, <<"M","a","n","u","a","l"," ","C","S","V">>} THEN TRUE
        ELSE IF event.venue \in MUSIC_ONLY_VENUES THEN TRUE
        ELSE IF event.source \in {<<"B","a","n","d","s","i","n","t","o","w","n">>, <<"T","i","c","k","e","t","m","a","s","t","e","r">>} THEN TRUE
        ELSE IF AnyIn(NON_MUSIC_KEYWORDS, combined) /\ ~AnyIn(SCRIPTS_MUSIC_KEYWORDS, combined)
             THEN FALSE
        ELSE TRUE

\* scripts/utils/filter.py _is_music_event
_is_music_event(event) ==
    LET title == Lower(event.artist)
        raw == Lower(OrEmpty(event.raw_title))
        combined == title \o <<" ">> \o raw
    IN  IF event.source \in {<<"G","o","o","g","l","e"," ","S","h","e","e","t","s">>, <<"M","a","n","u","a","l"," ","C","S","V">>} THEN TRUE
        ELSE IF event.venue \in MUSIC_ONLY_VENUES THEN TRUE
        ELSE IF AnyIn(NON_MUSIC_KEYWORDS, combined) /\ ~AnyIn(SCRIPTS_MUSIC_KEYWORDS, combined)
             THEN FALSE
        ELSE IF event.source \in {<<"B","a","n","d","s","i","n","t","o","w","n">>, <<"T","i","c","k","e","t","m","a","s","t","e","r">>} THEN TRUE
        ELSE IF event.source = <<"D","I","C","E">> THEN TRUE
        ELSE IF AnyIn(SCRIPTS_MUSIC_KEYWORDS, combined) THEN TRUE
        ELSE IF event.venue \in MUSIC_ONLY_VENUES \/ event.venue \in MIXED_VENUES THEN TRUE
        ELSE TRUE

\* scripts/utils/filter.py filter_music_events
filter_music_events(events) == SelectSeq(events, _is_music_event)

RECURSIVE StripPrefixes(_, _)
\* for prefix in [...]: if s.startswith(prefix): s = s[len(prefix):]
StripPrefixes(s, prefixes) ==
    IF prefixes = <<>> THEN s
    ELSE StripPrefixes(IF StartsWith(s, prefixes[1])
                       THEN SubSeq(s, Len(prefixes[1]) + 1, Len(s)) ELSE s,
                       Tail(prefixes))

RECURSIVE StripSuffixes(_, _)
\* for suffix in [...]: if s.endswith(suffix): s = s[:-len(suffix)].strip()
StripSuffixes(s, suffixes) ==
    IF suffixes = <<>> THEN s
    ELSE StripSuffixes(IF EndsWith(s, suffixes[1])
                       THEN Strip(SubSeq(s, 1, Len(s) - Len(suffixes[1]))) ELSE s,
                       Tail(suffixes))

\* scripts/utils/dedup.py _normalize_for_dedup
_normalize_for_dedup(text) ==
    IF text = <<>> THEN <<>>
    ELSE StripSuffixes(
             CollapseSpace(RemovePunct(StripPrefixes(Strip(Lower(text)), DedupPrefixes))),
             DedupSuffixes)

\* scripts/utils/dedup.py _make_dedup_key: f"{date}|{artist}|{venue}", the
\* date formatted as %Y-%m-%d (one token for the day)
_make_dedup_key(event) ==
    <<ToString(event.date[1])>> \o <<"|">> \o _normalize_for_dedup(event.artist)
        \o <<"|">> \o _normalize_for_dedup(event.venue)

RECURSIVE SourcePriority(_, _)
\* the priority of the first prefix of SOURCE_PRIORITY the source starts with
SourcePriority(source, table) ==
    IF table = <<>> THEN 0
    ELSE IF StartsWith(source, table[1][1]) THEN table[1][2]
    ELSE SourcePriority(source, Tail(table))

\* scripts/utils/dedup.py _score_event
_score_event(event) ==
    SourcePriority(event.source, SOURCE_PRIORITY)
    + (IF Truthy(event.time) THEN 3 ELSE 0)
    + (IF Truthy(event.url) THEN 2 ELSE 0)
    + (IF event.venue # <<>> /\ ~Contains(Lower(event.venue), <<"s","e","e"," ">>) THEN 2 ELSE 0)

RECURSIVE Seen_replace_on_tie(_)
\* variant: an event of equal score replaces the one seen before
Seen_replace_on_tie(events) ==
    IF events = <<>> THEN <<>>
    ELSE LET seen == Seen_replace_on_tie(SubSeq(events, 1, Len(events) - 1))
             event == events[Len(events)]
             key == _make_dedup_key(event)
         IN  IF \E i \in 1..Len(seen) : seen[i].key = key
             THEN [i \in 1..Len(seen) |->
                     IF seen[i].key = key /\ _score_event(event) >= _score_event(seen[i].event)
                     THEN [key |-> key, event |-> event] ELSE seen[i]]
             ELSE Append(seen, [key |-> key, event |-> event])

RECURSIVE Seen(_)
\* the dict seen after the loop of deduplicate_events, as the sequence of
\* its items in insertion order
Seen(events) ==
    IF events = <<>> THEN <<>>
    ELSE LET seen == Seen(SubSeq(events, 1, Len(events) - 1))
             event == events[Len(events)]
             key == _make_dedup_key(event)
         IN  IF \E i \in 1..Len(seen) : seen[i].key = key
             THEN [i \in 1..Len(seen) |->
                     IF seen[i].key = key /\ _score_event(event) > _score_event(seen[i].event)
                     THEN [key |-> key, event |-> event] ELSE seen[i]]
             ELSE Append(seen, [key |-> key, event |-> event])

\* scripts/utils/dedup.py deduplicate_events
deduplicate_events(events) ==
    LET seen == Seen(events)
    IN  SortedByKey([i \in 1..Len(seen) |->
            [k |-> <<seen[i].event.date, Ords(Lower(seen[i].event.artist))>>,
             v |-> seen[i].event]])

\* str.upper()
Upper(s) ==
    LET UpperChar(c) == IF IsLower(c) THEN Ascii[Ord(c) - 32 - 31] ELSE c
    IN  [i \in 1..Len(s) |-> UpperChar(s[i])]

\* current.strftime("%A, %B %-d") of a day. Days are counted from
\* 2026-01-01, which is day 0; the proleptic Gregorian ordinal, the weekday
\* and the date in the year are computed as datetime computes them.
strftime(day) ==
    LET \* %A, indexed by date.weekday() + 1, and %B
        DayNames ==
            <<<<"M","o","n","d","a","y">>, <<"T","u","e","s","d","a","y">>, <<"W","e","d","n","e","s","d","a","y">>, <<"T","h","u","r","s","d","a","y">>, <<"F","r","i","d","a","y">>, <<"S","a","t","u","r","d","a","y">>, <<"S","u","n","d","a","y">>>>
        MonthNames ==
            <<<<"J","a","n","u","a","r","y">>, <<"F","e","b","r","u","a","r","y">>, <<"M","a","r","c","h">>, <<"A","p","r","i","l">>, <<"M","a","y">>, <<"J","u","n","e">>, <<"J","u","l","y">>, <<"A","u","g","u","s","t">>,
              <<"S","e","p","t","e","m","b","e","r">>, <<"O","c","t","o","b","e","r">>, <<"N","o","v","e","m","b","e","r">>, <<"D","e","c","e","m","b","e","r">>>>
        DaysBeforeYear(y) == (y - 1) * 365 + (y - 1) \div 4 - (y - 1) \div 100 + (y - 1) \div 400
        ordinal == DaysBeforeYear(2026) + 1 + day
        year == CHOOSE y \in 2026..2040 :
                    DaysBeforeYear(y) < ordinal /\ ordinal <= DaysBeforeYear(y + 1)
        leap == year % 4 = 0 /\ (year % 100 # 0 \/ year % 400 = 0)
        before == <<0, 31, 59, 90, 120, 151, 181, 212, 243, 273, 304, 334, 365>>
        DaysBeforeMonth(m) == before[m] + (IF leap /\ m > 2 THEN 1 ELSE 0)
        n == ordinal - DaysBeforeYear(year)
        month == CHOOSE m \in 1..12 : DaysBeforeMonth(m) < n /\ n <= DaysBeforeMonth(m + 1)
        d == n - DaysBeforeMonth(month)
        weekday == (ordinal + 6) % 7
        Digit(k) == Ascii[k + 17]
        decimal == IF d < 10 THEN <<Digit(d)>> ELSE <<Digit(d \div 10), Digit(d % 10)>>
    IN  DayNames[weekday + 1] \o <<","," ">> \o MonthNames[month] \o <<" ">> \o decimal

\* variant: the events of one day sorted by time and artist only
DayEvents_by_time_only(events, day) ==
    LET on_day == SelectSeq(events, LAMBDA e : e.date[1] = day)
    IN  SortedByKey([i \in 1..Len(on_day) |->
            [k |-> << Ords(OrEmpty(on_day[i].time)), Ords(Lower(on_day[i].artist)) >>,
             v |-> on_day[i]]])

\* by_date.get(date_key, []): the events of one day, sorted as
\* format_events_by_date sorts them
DayEvents(events, day) ==
    LET on_day == SelectSeq(events, LAMBDA e : e.date[1] = day)
    IN  SortedByKey([i \in 1..Len(on_day) |->
            [k |-> << <<IF Truthy(on_day[i].time) THEN 0 ELSE 1>>,
                      Ords(OrEmpty(on_day[i].time)),
                      Ords(Lower(on_day[i].artist)) >>,
             v |-> on_day[i]]])

\* scripts/utils/formatter.py format_events_by_date: the items of the result
\* dict in its order. Assigning to a key the dict already holds replaces the
\* value and leaves the key where it was put first.
format_events_by_date(events, start_date, end_date) ==
    LET n == IF end_date > start_date THEN end_date - start_date ELSE 0
        display_key == SubSeq([i \in 1..n |-> Upper(strftime(start_date + i - 1))], 1, n)
        again == {i \in 1..n : \E j \in 1..(i - 1) : display_key[j] = display_key[i]}
        first == (1..n) \ again
        Position(i) == i - Cardinality({j \in again : j < i})
        Last(i) == CHOOSE j \in i..n :
                       /\ display_key[j] = display_key[i]
                       /\ \A k \in (j + 1)..n : display_key[k] # display_key[i]
    IN  [p \in 1..Cardinality(first) |->
            LET i == CHOOSE i \in first : Position(i) = p
            IN  [display_key |-> display_key[i],
                 events |-> DayEvents(events, start_date + Last(i) - 1)]]

\* ------------------------------------------------------------------------
\* src/scripts/main.py: run
\* ------------------------------------------------------------------------

\* timedelta(days=DAYS_AHEAD)
DAYS_AHEAD == 7

\* get_date_range, as day numbers
get_date_range(day) == [tomorrow |-> day + 1, end_date |-> day + 1 + DAYS_AHEAD]

\* the names of the list sources of run, in its order
sources ==
    << "Bandsintown", "Ticketmaster", "Eventbrite", "DICE", "Memphis Flyer",
       "Venue Calendars", "Manual (Google Sheets)" >>

\* the events an adapter finds when its site answers
AdapterEvents(name) ==
    CASE name = "Bandsintown" ->
           << ScriptsEvent(<<"L","u","c","e","r","o">>, <<"M","i","n","g","l","e","w","o","o","d"," ","H","a","l","l">>, <<1, 1200>>, NoneStr, <<"B","a","n","d","s","i","n","t","o","w","n">>,
                           Some(<<"h","t","t","p",":","/","/","x">>), NoneStr),
              ScriptsEvent(<<"A","l"," ","G","r","e","e","n">>, <<"F","e","d","E","x","F","o","r","u","m">>, <<2, 1140>>, NoneStr, <<"B","a","n","d","s","i","n","t","o","w","n">>,
                           NoneStr, NoneStr) >>
      [] name = "Ticketmaster" ->
           << ScriptsEvent(<<"L","u","c","e","r","o">>, <<"M","i","n","g","l","e","w","o","o","d"," ","H","a","l","l">>, <<1, 1200>>, Some(<<"8",":","0","0"," ","P","M">>),
                           <<"T","i","c","k","e","t","m","a","s","t","e","r">>, Some(<<"h","t","t","p",":","/","/","x">>), NoneStr) >>
      [] name = "Eventbrite" ->
           << ScriptsEvent(<<"C","o","m","e","d","y"," ","N","i","g","h","t">>, <<"M","i","d","t","o","w","n"," ","C","r","o","s","s","i","n","g"," ","G","r","i","l","l">>, <<2, 0>>, NoneStr,
                           <<"E","v","e","n","t","b","r","i","t","e">>, NoneStr, Some(<<"C","o","m","e","d","y"," ","N","i","g","h","t">>)),
              ScriptsEvent(<<"T","r","i","v","i","a"," ","a","n","d"," ","L","i","v","e"," ","M","u","s","i","c">>, <<"C","r","o","s","s","t","o","w","n"," ","A","r","t","s">>, <<3, 0>>, Some(<<"7",":","0","0"," ","P","M">>),
                           <<"E","v","e","n","t","b","r","i","t","e">>, NoneStr, NoneStr) >>
      [] name = "DICE" ->
           << ScriptsEvent(<<"T","h","e"," ","L","u","c","e","r","o"," ","B","a","n","d">>, <<"S","e","e"," ","l","i","s","t","i","n","g">>, <<1, 0>>, NoneStr, <<"D","I","C","E">>,
                           Some(<<"h","t","t","p",":","/","/","x">>), NoneStr),
              ScriptsEvent(<<"D","J"," ","L","u","c","e","r","o">>, <<"T","h","e"," ","M","i","n","g","l","e","w","o","o","d"," ","H","a","l","l">>, <<1, 0>>, NoneStr, <<"D","I","C","E">>,
                           NoneStr, NoneStr) >>
      [] name = "Memphis Flyer" ->
           << ScriptsEvent(<<"A","r","t"," ","S","h","o","w">>, <<"C","r","o","s","s","t","o","w","n"," ","A","r","t","s">>, <<3, 0>>, Some(<<"6",":","0","0"," ","P","M">>),
                           <<"M","e","m","p","h","i","s"," ","F","l","y","e","r">>, NoneStr, Some(<<"A","r","t"," ","S","h","o","w">>)) >>
      [] name = "Venue Calendars" ->
           << ScriptsEvent(<<"L","u","c","e","r","o">>, <<"M","i","n","g","l","e","w","o","o","d"," ","H","a","l","l">>, <<1, 0>>, Some(<<"D","o","o","r","s"," ","7"," ","/"," ","S","h","o","w"," ","8">>),
                           <<"V","e","n","u","e",":"," ","M","i","n","g","l","e","w","o","o","d"," ","H","a","l","l">>, NoneStr, NoneStr),
              ScriptsEvent(<<"a","l"," ","g","r","e","e","n">>, <<"F","e","d","E","x","F","o","r","u","m">>, <<2, 0>>, NoneStr,
                           <<"V","e","n","u","e",":"," ","F","e","d","E","x","F","o","r","u","m">>, NoneStr, NoneStr) >>
      [] name = "Manual (Google Sheets)" ->
           << ScriptsEvent(<<"B","o","o","k"," ","S","i","g","n","i","n","g">>, <<"B","a","r"," ","D","K","D","C">>, <<7, 0>>, NoneStr, <<"G","o","o","g","l","e"," ","S","h","e","e","t","s">>,
                           NoneStr, NoneStr) >>

\* the lists an adapter may return: what it finds, or [] (no credentials
\* configured, or nothing in the date range)
AdapterReturns(name) ==
    IF name \in {"Bandsintown", "Ticketmaster", "Manual (Google Sheets)"}
    THEN {AdapterEvents(name), <<>>}
    ELSE {AdapterEvents(name)}

\* a status whose count is the number of events collected so far
StatusOk_total(events) == [status |-> "ok", count |-> Len(s_all_events) + Len(events)]

\* source_status[name] = {"status": "ok", "count": count}
StatusOk(events) == [status |-> "ok", count |-> Len(events)]

\* source_status[name] = {"status": "error", "message": str(e)}
StatusError(message) == [status |-> "error", message |-> message]

\* a loop that an exception leaves
AfterException_leave(i) == Len(sources) + 1

\* except Exception: the loop goes on with the next source
AfterException(i) == i + 1

\* run() is called
ScriptsInit ==
    /\ s_pc = "fetch"
    /\ fetch_i = 1
    /\ invoked = <<>>
    /\ s_all_events = <<>>
    /\ source_status = <<>>
    /\ music_events = <<>>
    /\ unique_events = <<>>
    /\ events_by_date = <<>>
    /\ outputs = [index_html |-> "old", status_json |-> "old"]
    /\ MainIdle
    /\ DedupIdle
    /\ CallIdle

\* fetch loop: events = fetch_fn(tomorrow, end_date) returns
FetchReturns(events) ==
    /\ s_pc = "fetch"
    /\ fetch_i <= Len(sources)
    /\ events \in AdapterReturns(sources[fetch_i])
    /\ invoked' = Append(invoked, sources[fetch_i])
    /\ s_all_events' = s_all_events \o events
    /\ source_status' = (sources[fetch_i] :> StatusOk(events)) @@ source_status
    /\ fetch_i' = fetch_i + 1
    /\ UNCHANGED <<s_pc, music_events, unique_events, events_by_date, outputs, mainVars, dedupVars, callVars>>

\* fetch loop: fetch_fn(tomorrow, end_date) raises
FetchRaises ==
    /\ s_pc = "fetch"
    /\ fetch_i <= Len(sources)
    /\ invoked' = Append(invoked, sources[fetch_i])
    /\ source_status' = (sources[fetch_i] :> StatusError("error")) @@ source_status
    /\ fetch_i' = AfterException(fetch_i)
    /\ UNCHANGED <<s_pc, s_all_events, music_events, unique_events, events_by_date, outputs,
                   mainVars, dedupVars, callVars>>

\* music_events = filter_music_events(all_events)
Filter ==
    /\ s_pc = "fetch"
    /\ fetch_i > Len(sources)
    /\ music_events' = filter_music_events(s_all_events)
    /\ s_pc' = "dedup"
    /\ UNCHANGED <<fetch_i, invoked, s_all_events, source_status, unique_events,
                   events_by_date, outputs, mainVars, dedupVars, callVars>>

\* unique_events = deduplicate_events(music_events)
DeduplicateEvents ==
    /\ s_pc = "dedup"
    /\ unique_events' = deduplicate_events(music_events)
    /\ s_pc' = "format"
    /\ UNCHANGED <<fetch_i, invoked, s_all_events, source_status, music_events,
                   events_by_date, outputs, mainVars, dedupVars, callVars>>

\* events_by_date = format_events_by_date(unique_events, tomorrow, end_date)
Format ==
    /\ s_pc = "format"
    /\ events_by_date' = format_events_by_date(unique_events, get_date_range(0).tomorrow,
                                               get_date_range(0).end_date)
    /\ s_pc' = "write"
    /\ UNCHANGED <<fetch_i, invoked, s_all_events, source_status, music_events,
                   unique_events, outputs, mainVars, dedupVars, callVars>>

\* generate_html, index.html, status.json
Publish ==
    /\ s_pc = "write"
    /\ outputs' = [index_html |-> "written", status_json |-> "written"]
    /\ s_pc' = "done"
    /\ UNCHANGED <<fetch_i, invoked, s_all_events, source_status, music_events,
                   unique_events, events_by_date, mainVars, dedupVars, callVars>>

ScriptsNext ==
    \/ \E events \in UNION {AdapterReturns(sources[i]) : i \in 1..Len(sources)} :
          FetchReturns(events)
    \/ FetchRaises
    \/ Filter
    \/ DeduplicateEvents
    \/ Format
    \/ Publish

ScriptsSpec == ScriptsInit /\ [][ScriptsNext]_vars

\* ------------------------------------------------------------------------
\* Calls of deduplicate on lists of candidate events
\* ------------------------------------------------------------------------

\* the longest list deduplicate is called with
MaxEvents == 3

\* The candidate events the lists are made of: the two reports of the spec's
\* dedup scenario, and reports that differ from them in the date, the venue,
\* the spelling of the artist, the source and the detail they carry.
EventPool ==
    { Event(S_Lucero, S_MinglewoodHall, 1, NoneStr, S_Bandsintown, NoneStr),
      Event(S_LuceroGuests, S_minglewood_hall, 1, Some(S_8PM), S_VenueMinglewood, Some(S_url_x)),
      Event(S_SpecialGuests, S_MinglewoodHall, 1, NoneStr, S_Bandsintown, NoneStr),
      Event(S_TheLuceroLive, S_TheMinglewoodHall, 1, Some(S_8PM), S_Bandsintown, NoneStr),
      Event(S_Lucero, S_MinglewoodHall, 2, NoneStr, S_Ticketmaster, Some(S_url_x)),
      Event(S_Lucero, S_HiTone, 1, NoneStr, S_Bandsintown, NoneStr),
      Event(S_Lucero, S_MinglewoodHall, 1, NoneStr, S_ManualSheet, NoneStr),
      Event(S_Lucero, S_MinglewoodHall, 1, NoneStr, S_Ticketmaster, NoneStr),
      Event(S_NorthMississippiAllstars, S_HiTone, 1, NoneStr, S_Bandsintown, NoneStr),
      Event(S_MississippiAllstarsNorthDuo, S_HiTone, 1, Some(S_8PM), S_Ticketmaster, NoneStr) }

DedupInit ==
    /\ DedupIdle
    /\ MainIdle
    /\ ScriptsIdle
    /\ CallIdle

\* the caller collects one more candidate event
DedupCollect(e) ==
    /\ ~dd_done
    /\ Len(dd_events) < MaxEvents
    /\ dd_events' = Append(dd_events, e)
    /\ UNCHANGED <<dd_result, dd_done, mainVars, scriptsVars, callVars>>

\* deduped = deduplicate(all_events)
DedupCall ==
    /\ ~dd_done
    /\ dd_result' = deduplicate(dd_events)
    /\ dd_done' = TRUE
    /\ UNCHANGED <<dd_events, mainVars, scriptsVars, callVars>>

DedupNext ==
    \/ \E e \in EventPool : DedupCollect(e)
    \/ DedupCall

DedupSpec == DedupInit /\ [][DedupNext]_vars

\* ------------------------------------------------------------------------
\* Calls of the pure functions of the repository: one call, with arguments
\* a caller can pass, and what it returned.
\* ------------------------------------------------------------------------

\* venue names as adapters meet them: nothing, blanks, the registered
\* aliases and canonical names, and spellings that differ from them in case,
\* in surrounding blanks, in a missing part or in an added word
VenueNames ==
    { <<>>, <<" ">>, <<" "," "," ">>, <<"U","n","k","n","o","w","n"," ","V","e","n","u","e">>, <<"M","i","n","g","l","e","w","o","o","d"," ","H","a","l","l"," ","M","e","m","p","h","i","s">>,
      <<" ","M","i","n","g","l","e","w","o","o","d"," ","H","a","l","l"," ">>, <<"H","I"," ","T","O","N","E">>, <<"T","h","e"," ","N","e","w"," ","D","a","i","s","y">>, <<"M","i","n","g","l","e">>, <<"o">>,
      <<"T","i","n"," ","R","o","o","f">>, <<"G","r","o","w","l","e","r","s"," ","M","e","m","p","h","i","s">>, <<" "," ","T","h","e"," ","S","h","e","l","l">>, <<"V","e","n","u","e"," ","T","B","A">> }
    \cup {VENUE_ALIASES[i][1] : i \in 1..Len(VENUE_ALIASES)}
    \cup {VENUE_ALIASES[i][2] : i \in 1..Len(VENUE_ALIASES)}
    \cup {VENUE_ALIAS_MAP[i][1] : i \in 1..Len(VENUE_ALIAS_MAP)}
    \cup {VENUE_ALIAS_MAP[i][2] : i \in 1..Len(VENUE_ALIAS_MAP)}

VenueCalls ==
    {[fn |-> f, name |-> n] : f \in {"normalize_venue", "normalize_venue_name"}, n \in VenueNames}

\* what an adapter passes to config.is_music_event: a title, the category
\* of the listing and its description
ClassifierCalls ==
    {[fn |-> "is_music_event", title |-> t, category |-> c, description |-> d] :
        t \in {<<"L","u","c","e","r","o">>, <<"C","o","m","e","d","y"," ","N","i","g","h","t">>, <<"C","o","m","e","d","y"," ","a","n","d"," ","J","a","z","z"," ","N","i","g","h","t">>, <<"L","i","v","e"," ","a","t"," ","H","i"," ","T","o","n","e">>,
               <<"A","n"," ","E","v","e","n","i","n","g"," ","D","o","w","n","t","o","w","n">>, <<"T","r","i","v","i","a"," ","N","i","g","h","t">>},
        c \in {<<>>, <<"m","u","s","i","c">>, <<"M","u","s","i","c">>, <<"A","r","t","s">>, <<"N","i","g","h","t","l","i","f","e">>},
        d \in {<<>>, <<"D","o","o","r","s"," ","a","t"," ","7">>, <<"l","i","v","e"," ","m","u","s","i","c"," ","a","l","l"," ","n","i","g","h","t">>}}

\* the events scripts/utils/filter.py meets: titles with and without
\* keywords of either kind, venues of the three kinds, and every source
FilterCalls ==
    {[fn |-> "_is_music_event",
      event |-> ScriptsEvent(a, v, <<1, 0>>, NoneStr, s, NoneStr, r)] :
        a \in {<<"L","u","c","e","r","o">>, <<"C","o","m","e","d","y"," ","N","i","g","h","t">>, <<"T","r","i","v","i","a"," ","N","i","g","h","t"," ","w","i","t","h"," ","D","J"," ","S","p","i","n">>, <<"A","r","t"," ","S","h","o","w">>},
        r \in {NoneStr, Some(<<"C","o","m","e","d","y"," ","N","i","g","h","t">>), Some(<<"A","n"," ","e","v","e","n","i","n","g"," ","o","f"," ","l","i","v","e"," ","m","u","s","i","c">>)},
        v \in {<<"H","i"," ","T","o","n","e">>, <<"C","r","o","s","s","t","o","w","n"," ","A","r","t","s">>, <<"M","i","d","t","o","w","n"," ","C","r","o","s","s","i","n","g"," ","G","r","i","l","l">>},
        s \in {<<"G","o","o","g","l","e"," ","S","h","e","e","t","s">>, <<"M","a","n","u","a","l"," ","C","S","V">>, <<"B","a","n","d","s","i","n","t","o","w","n">>, <<"T","i","c","k","e","t","m","a","s","t","e","r">>, <<"D","I","C","E">>,
               <<"E","v","e","n","t","b","r","i","t","e">>, <<"V","e","n","u","e",":"," ","H","i"," ","T","o","n","e">>}}

\* the events the formatter is given: with a time, without one, with an
\* empty one, on two days, with artist names that differ in case
FormatEventPool ==
    { ScriptsEvent(<<"L","u","c","e","r","o">>, <<"H","i"," ","T","o","n","e">>, <<1, 1200>>, Some(<<"8",":","0","0"," ","P","M">>), <<"B","a","n","d","s","i","n","t","o","w","n">>, NoneStr, NoneStr),
      ScriptsEvent(<<"a","l"," ","g","r","e","e","n">>, <<"H","i"," ","T","o","n","e">>, <<1, 0>>, NoneStr, <<"D","I","C","E">>, NoneStr, NoneStr),
      ScriptsEvent(<<"B","i","g"," ","S","t","a","r">>, <<"G","r","o","w","l","e","r","s">>, <<1, 1140>>, Some(<<"7",":","0","0"," ","P","M">>), <<"D","I","C","E">>, NoneStr, NoneStr),
      ScriptsEvent(<<"a","l","p","h","a">>, <<"G","r","o","w","l","e","r","s">>, <<1, 1200>>, Some(<<"8",":","0","0"," ","P","M">>), <<"D","I","C","E">>, NoneStr, NoneStr),
      ScriptsEvent(<<"Z","e","b","r","a">>, <<"G","r","o","w","l","e","r","s">>, <<1, 0>>, Some(<<>>), <<"M","a","n","u","a","l"," ","C","S","V">>, NoneStr, NoneStr),
      ScriptsEvent(<<"L","u","c","e","r","o">>, <<"H","i"," ","T","o","n","e">>, <<3, 1200>>, Some(<<"8",":","0","0"," ","P","M">>), <<"B","a","n","d","s","i","n","t","o","w","n">>, NoneStr, NoneStr) }

\* ------------------------------------------------------------------------
\* src/scripts/sources/google_sheets.py
\* ------------------------------------------------------------------------

\* _parse_manual_row(row, start_date, end_date, source): <<event>> or <<>>
\* for None. The row is a list of row.cells cells: date, artist, venue, time.
_parse_manual_row(row, start_date, end_date, source) ==
    LET date_str == row.date
        artist == Strip(row.artist)
        venue == Strip(row.venue)
        time_str == IF row.cells > 3 THEN Some(Strip(row.time)) ELSE NoneStr
    IN  IF row.cells < 3 THEN <<>>
        ELSE IF ~JTruthy(date_str) \/ artist = <<>> THEN <<>>
        ELSE IF date_str.t # "datestr" THEN <<>>
        ELSE IF JVal(date_str) < start_date \/ JVal(date_str) >= end_date THEN <<>>
        ELSE <<ScriptsEvent(artist,
                            IF venue # <<>> THEN normalize_venue(venue) ELSE <<"U","n","k","n","o","w","n"," ","V","e","n","u","e">>,
                            <<JVal(date_str), 0>>,
                            IF Truthy(time_str) THEN time_str ELSE NoneStr,
                            source, NoneStr, Some(artist))>>

RECURSIVE _fetch_from_google_sheets(_, _, _)
\* the loop of _fetch_from_google_sheets over the rows of data["values"]
_fetch_from_google_sheets(rows, start_date, end_date) ==
    IF rows = <<>> THEN <<>>
    ELSE _parse_manual_row(rows[1], start_date, end_date, <<"G","o","o","g","l","e"," ","S","h","e","e","t","s">>)
            \o _fetch_from_google_sheets(Tail(rows), start_date, end_date)

\* the longest list the formatter is given
MaxListed == 3

RECURSIVE ListsOf(_, _)
\* the lists of at most n elements of a set
ListsOf(S, n) ==
    IF n = 0 THEN {<<>>}
    ELSE LET shorter == ListsOf(S, n - 1)
         IN  shorter \cup {Append(l, x) : l \in shorter, x \in S}

\* windows of 0, 1, 2 and DAYS_AHEAD days from day 1, and a window of six
\* years and two days; the long one for the empty list and for one event
\* on its first day
FormatCalls ==
    {[fn |-> "format_events_by_date", events |-> l, start_date |-> 1, end_date |-> 1 + n] :
        l \in ListsOf(FormatEventPool, MaxListed), n \in {0, 1, 2, DAYS_AHEAD}}
    \cup {[fn |-> "format_events_by_date", events |-> l, start_date |-> 1,
           end_date |-> 1 + 6 * 365 + 2] :
            l \in {<<>>} \cup {<<e>> : e \in {x \in FormatEventPool :
                                                  x.date[1] = 1 /\ x.artist = <<"L","u","c","e","r","o">>}}}

\* the candidate events of the scripts pipeline: reports of one show that
\* differ in the source, in the spelling of artist and venue and in the
\* detail they carry, a bill that names the artist among others, the same
\* artist at another venue and on another day, and another artist
CandidatePool ==
    { ScriptsEvent(<<"L","u","c","e","r","o">>, <<"M","i","n","g","l","e","w","o","o","d"," ","H","a","l","l">>, <<1, 1200>>, NoneStr, <<"B","a","n","d","s","i","n","t","o","w","n">>, Some(<<"h","t","t","p",":","/","/","x">>), NoneStr),
      ScriptsEvent(<<"L","u","c","e","r","o">>, <<"M","i","n","g","l","e","w","o","o","d"," ","H","a","l","l">>, <<1, 1200>>, NoneStr, <<"T","i","c","k","e","t","m","a","s","t","e","r">>, Some(<<"h","t","t","p",":","/","/","x">>), NoneStr),
      ScriptsEvent(<<"T","h","e"," ","L","u","c","e","r","o"," ","B","a","n","d">>, <<"m","i","n","g","l","e","w","o","o","d"," ","h","a","l","l">>, <<1, 1200>>, Some(<<"8",":","0","0"," ","P","M">>), <<"D","I","C","E">>, NoneStr, NoneStr),
      ScriptsEvent(<<"L","u","c","e","r","o"," ","w","/"," ","S","p","e","c","i","a","l"," ","G","u","e","s","t","s">>, <<"M","i","n","g","l","e","w","o","o","d"," ","H","a","l","l">>, <<1, 1200>>, NoneStr, <<"B","a","n","d","s","i","n","t","o","w","n">>, NoneStr, NoneStr),
      ScriptsEvent(<<"L","u","c","e","r","o">>, <<"H","i"," ","T","o","n","e">>, <<1, 1200>>, NoneStr, <<"B","a","n","d","s","i","n","t","o","w","n">>, NoneStr, NoneStr),
      ScriptsEvent(<<"L","u","c","e","r","o">>, <<"M","i","n","g","l","e","w","o","o","d"," ","H","a","l","l">>, <<2, 1200>>, NoneStr, <<"B","a","n","d","s","i","n","t","o","w","n">>, NoneStr, NoneStr),
      ScriptsEvent(<<"A","l"," ","G","r","e","e","n">>, <<"F","e","d","E","x","F","o","r","u","m">>, <<1, 1140>>, Some(<<"7",":","0","0"," ","P","M">>), <<"V","e","n","u","e",":"," ","F","e","d","E","x","F","o","r","u","m">>, NoneStr, NoneStr) }

\* the lists deduplicate_events is given: the reports of the artist on day 1
DedupCalls ==
    {[fn |-> "deduplicate_events", events |-> l] :
        l \in ListsOf({e \in CandidatePool :
                          e.date[1] = 1 /\ e.artist # <<"A","l"," ","G","r","e","e","n">>},
                      MaxListed)}

\* the candidate list of a run after the fetch loop: reports of one show
\* with a url and no time, reports of the artist of one day, and reports
\* with a time
PipelineCalls ==
    {[fn |-> "run", all_events |-> l] :
        l \in ListsOf({e \in CandidatePool :
                          \/ e.url # NoneStr
                          \/ e.artist = <<"L","u","c","e","r","o">> /\ e.date[1] = 1
                          \/ e.time # NoneStr /\ e.source # <<"D","I","C","E">>}, MaxListed)}

\* what the request for a venue's calendar may give: a failure, a page
\* without events, a page with an event in the date range, and a page with
\* one in the range and one after it
PagesOf(venue_info) ==
    LET On(day) == Event(S_Lucero, venue_info.name, day, NoneStr, SourceKey(venue_info), NoneStr)
    IN  { [kind |-> "failed"],
          [kind |-> "html", events |-> <<>>],
          [kind |-> "html", events |-> <<On(START_DATE(0))>>],
          [kind |-> "html", events |-> <<On(START_DATE(0)), On(END_DATE(0) + 1)>>] }

\* rows of a manual table: two shows in the date range, a date that is no
\* date, a blank artist, a date past the range, and a line of two cells
\* (date and artist, nothing after them)
RowPool ==
    { Row(JDate(1), S_Lucero, S_minglewood, <<>>, <<>>),
      Row(JDate(2), S_AlGreen, S_HiTone, S_9PM, <<>>),
      Row(JStr(S_soon), S_AlGreen, S_HiTone, S_9PM, <<>>),
      Row(JDate(1), <<" ">>, S_HiTone, <<>>, <<>>),
      Row(JDate(9), S_Lucero, S_HiTone, <<>>, <<>>),
      ShortRow(Row(JDate(3), S_AlGreen, <<>>, <<>>, <<>>), 2) }

\* the manual tables of the calls
RowTables == ListsOf(RowPool, MaxListed)

ManualCalls ==
    {[fn |-> "_fetch_from_google_sheets", rows |-> l] : l \in RowTables}
    \cup {[fn |-> "google_sheet.fetch",
           input |-> [sheet_url |-> TRUE, sheet |-> [kind |-> "csv", rows |-> l],
                      local_csv |-> [kind |-> "missing"]]] : l \in RowTables}

\* events of a fetched result: on the first and on the last day of the date
\* range, with and without time and url, on the day of the run and on the
\* day after the range
CachedEventPool ==
    { Event(S_Lucero, S_MinglewoodHall, START_DATE(0), Some(S_8PM), S_Ticketmaster, Some(S_url_x)),
      Event(S_AlGreen, S_HiTone, END_DATE(0), NoneStr, S_VenueMinglewood, NoneStr),
      Event(S_Lucero, S_HiTone, 0, Some(S_9PM), S_Ticketmaster, NoneStr),
      Event(S_AlGreen, S_MinglewoodHall, END_DATE(0) + 1, NoneStr, S_Ticketmaster, Some(S_url_x)) }

\* results of a fetch of Ticketmaster: events_found counts the events and
\* events_filtered is 0, or two more were found and one was filtered
FetchedResults ==
    {[SourceResult(S_Ticketmaster) EXCEPT !.events = l, !.events_found = Len(l) + 2 * filtered,
                                          !.events_filtered = filtered] :
        l \in ListsOf(CachedEventPool, MaxListed), filtered \in {0, 1}}

\* the cache before the result is stored: fresh, or holding an older entry
\* of the source; the entry is read from the dict in memory or, persisted,
\* from the file written by _save_cache
RoundTripCalls ==
    {[fn |-> "_events_from_cache", source_name |-> S_Ticketmaster, result |-> r,
      cache |-> c, persisted |-> p] :
        r \in FetchedResults,
        c \in {FreshCache,
               _cache_source_result(FreshCache, S_Ticketmaster,
                   [SourceResult(S_Ticketmaster) EXCEPT
                       !.events = <<Event(S_Lucero, S_HiTone, 2, NoneStr, S_Ticketmaster, NoneStr)>>,
                       !.events_found = 1], 0)},
        p \in BOOLEAN}

ScrapedVenues == SelectSeq(VENUES, LAMBDA v : ~SkipVenue(v))

AdapterCalls ==
    {[fn |-> "venue_scrapers.fetch", pages |-> pages] :
        pages \in {q \in [1..Len(ScrapedVenues) -> UNION {PagesOf(ScrapedVenues[i]) :
                                                          i \in 1..Len(ScrapedVenues)}] :
                      \A i \in 1..Len(ScrapedVenues) : q[i] \in PagesOf(ScrapedVenues[i])}}
    \cup {[fn |-> "google_sheet.fetch", input |-> input] : input \in GoogleSheetInputs}

CallPool ==
    VenueCalls \cup ClassifierCalls \cup FilterCalls \cup FormatCalls \cup DedupCalls
        \cup PipelineCalls \cup AdapterCalls \cup ManualCalls
        \cup RoundTripCalls

CallInit ==
    /\ fn_call \in CallPool
    /\ fn_result = <<>>
    /\ fn_done = FALSE
    /\ MainIdle
    /\ DedupIdle
    /\ ScriptsIdle

\* the call returns
Returns(fn, value) ==
    /\ ~fn_done
    /\ fn_call.fn = fn
    /\ fn_result' = value
    /\ fn_done' = TRUE
    /\ UNCHANGED <<fn_call, mainVars, dedupVars, scriptsVars>>

\* scripts/sources/__init__.py normalize_venue(name)
CallNormalizeVenue ==
    fn_call.fn = "normalize_venue" /\ Returns("normalize_venue", normalize_venue(fn_call.name))

\* config.py normalize_venue_name(name)
CallNormalizeVenueName ==
    fn_call.fn = "normalize_venue_name"
        /\ Returns("normalize_venue_name", normalize_venue_name(fn_call.name))

\* config.py is_music_event(title, category, description)
CallIsMusicEvent ==
    fn_call.fn = "is_music_event"
        /\ Returns("is_music_event",
                   is_music_event(fn_call.title, fn_call.category, fn_call.description))

\* scripts/utils/filter.py _is_music_event(event)
CallFilterIsMusicEvent ==
    fn_call.fn = "_is_music_event" /\ Returns("_is_music_event", _is_music_event(fn_call.event))

\* scripts/utils/formatter.py format_events_by_date(events, start_date, end_date)
CallFormatEventsByDate ==
    fn_call.fn = "format_events_by_date"
        /\ Returns("format_events_by_date",
                   format_events_by_date(fn_call.events, fn_call.start_date, fn_call.end_date))

\* scripts/utils/dedup.py deduplicate_events(events)
CallDeduplicateEvents ==
    fn_call.fn = "deduplicate_events"
        /\ Returns("deduplicate_events", deduplicate_events(fn_call.events))

\* scripts/main.py run, from the candidate list to events_by_date
Pipeline(candidates) ==
    LET music_events_ == filter_music_events(candidates)
        unique_events_ == deduplicate_events(music_events_)
    IN  format_events_by_date(unique_events_, get_date_range(0).tomorrow,
                              get_date_range(0).end_date)

CallPipeline ==
    fn_call.fn = "run" /\ Returns("run", Pipeline(fn_call.all_events))

\* src/src/sources/venue_scrapers.py fetch()
CallVenueScrapersFetch ==
    fn_call.fn = "venue_scrapers.fetch"
        /\ Returns("venue_scrapers.fetch", venue_scrapers_fetch(fn_call.pages, 0))

\* src/src/sources/google_sheet.py fetch()
CallGoogleSheetFetch ==
    fn_call.fn = "google_sheet.fetch"
        /\ Returns("google_sheet.fetch",
                   google_sheet_fetch(fn_call.input.sheet_url, fn_call.input.sheet,
                                      fn_call.input.local_csv, 0))

\* src/scripts/sources/google_sheets.py _fetch_from_google_sheets(), with the
\* date range of get_date_range()
CallFetchFromGoogleSheets ==
    fn_call.fn = "_fetch_from_google_sheets"
        /\ Returns("_fetch_from_google_sheets",
                   _fetch_from_google_sheets(fn_call.rows, get_date_range(0).tomorrow,
                                             get_date_range(0).end_date))

\* src/src/main.py: _cache_source_result(cache, source_name, result), then
\* _events_from_cache(cache, source_name) on that dict or, persisted, on the
\* dict that _load_cache reads from the file _save_cache wrote
CallEventsFromCache ==
    fn_call.fn = "_events_from_cache"
        /\ LET stored == _cache_source_result(fn_call.cache, fn_call.source_name,
                                              fn_call.result, 0)
               read == IF fn_call.persisted THEN _load_cache(_save_cache(stored, 0))
                       ELSE stored
           IN  Returns("_events_from_cache",
                       _events_from_cache(read, fn_call.source_name, 0))

CallNext ==
    \/ CallEventsFromCache
    \/ CallFetchFromGoogleSheets
    \/ CallVenueScrapersFetch
    \/ CallGoogleSheetFetch
    \/ CallDeduplicateEvents
    \/ CallPipeline
    \/ CallFormatEventsByDate
    \/ CallNormalizeVenue
    \/ CallNormalizeVenueName
    \/ CallIsMusicEvent
    \/ CallFilterIsMusicEvent

CallSpec == CallInit /\ [][CallNext]_vars

\* ------------------------------------------------------------------------
\* Properties of scripts/main.run
\* ------------------------------------------------------------------------

\* the fetch loop of scripts/main.run is over
AfterFetchLoop == s_pc \in {"dedup", "format", "write", "done"} \/ fetch_i > Len(sources)

\* some adapter raised and some adapter returned events
SomeRaisedSomeReturned ==
    /\ \E name \in DOMAIN source_status : source_status[name].status = "error"
    /\ \E name \in DOMAIN source_status :
          source_status[name].status = "ok" /\ source_status[name].count > 0

\* C1: whichever adapters raise, the adapters called so far are the first
\* entries of the registry, each once and in the order of the registry; when
\* the fetch loop is over every adapter has been called; the run is always in
\* its fetch loop or in one of the sections after it, up to its end; and at
\* its end the events were filtered, deduplicated and formatted in this order
\* and the output was written.
C1_EveryAdapterInvokedOnce ==
    /\ Len(invoked) <= Len(sources)
    /\ invoked = SubSeq(sources, 1, Len(invoked))
    /\ AfterFetchLoop => invoked = sources
    /\ s_pc \in {"fetch", "dedup", "format", "write", "done"}
    /\ fetch_i \in 1..(Len(sources) + 1)
    /\ s_pc = "done" =>
          /\ music_events = filter_music_events(s_all_events)
          /\ unique_events = deduplicate_events(music_events)
          /\ events_by_date = format_events_by_date(unique_events, 1, 1 + DAYS_AHEAD)
          /\ outputs = [index_html |-> "written", status_json |-> "written"]

\* a run ended in which the first and the last adapter raised, and others
\* returned events
C1_Witness ==
    /\ s_pc = "done"
    /\ source_status[sources[1]].status = "error"
    /\ source_status[sources[Len(sources)]].status = "error"
    /\ SomeRaisedSomeReturned
    /\ outputs.index_html = "written"

\* the number of events of all_events that an adapter returned
EventsFrom(name) ==
    Cardinality({i \in 1..Len(s_all_events) : s_all_events[i] \in Range(AdapterEvents(name))})

\* C3: after the fetch loop source_status has one entry for each registered
\* adapter and no other; an entry is 'ok' with the count of the events of
\* all_events that came from that adapter, or 'error' and then all_events has
\* no event from that adapter.
C3_OneStatusPerAdapter ==
    AfterFetchLoop =>
        /\ DOMAIN source_status = Range(sources)
        /\ \A name \in Range(sources) :
              \/ /\ source_status[name].status = "ok"
                 /\ source_status[name].count = EventsFrom(name)
              \/ /\ source_status[name].status = "error"
                 /\ EventsFrom(name) = 0

\* the fetch loop is over, an adapter raised and another returned two events
C3_Witness ==
    /\ AfterFetchLoop
    /\ SomeRaisedSomeReturned
    /\ \E name \in DOMAIN source_status :
          source_status[name].status = "ok" /\ source_status[name].count = 2

\* ------------------------------------------------------------------------
\* Properties of src/main.run
\* ------------------------------------------------------------------------

\* the venue loop of run is over
AfterVenueLoop == pc \in {"dedup", "write", "done"}

\* the results recorded under a source name
ResultsOf(source_name) ==
    {j \in 1..Len(all_source_results) : all_source_results[j].source_name = source_name}

\* the adapter of a source was called
Fetched(source_name) == \E i \in 1..Len(calls) : calls[i].source = source_name

\* C2: after the venue loop there is one SourceResult for each venue that has
\* a calendar URL and a scraper other than manual_only, whether or not the
\* processing of another venue raised, and the result of a venue whose
\* processing raised has success = false.
C2_OneResultPerVenue ==
    AfterVenueLoop =>
        \A i \in 1..Len(VENUES) :
            ~SkipVenue(VENUES[i]) =>
                /\ Cardinality(ResultsOf(SourceKey(VENUES[i]))) = 1
                /\ \A j \in ResultsOf(SourceKey(VENUES[i])) :
                      Fetched(SourceKey(VENUES[i])) => ~all_source_results[j].success

\* an adapter was called without its credentials or URL configured
Unconfigured(call) ==
    /\ ~call.raised
    /\ \/ call.adapter = "ticketmaster" /\ ~call.input.api_key
       \/ /\ call.adapter = "google_sheet"
          /\ ~call.input.sheet_url
          /\ call.input.local_csv.kind = "missing"

\* what the adapter of a call returned
Returned(call) ==
    IF call.adapter = "ticketmaster"
    THEN ticketmaster_fetch(call.input.api_key, call.input.response)
    ELSE google_sheet_fetch(call.input.sheet_url, call.input.sheet, call.input.local_csv, today)

\* C4: an adapter called without its credentials or URL configured returns a
\* result with success = true, no events and a non-empty message.
C4_UnconfiguredIsSuccess ==
    \A i \in 1..Len(calls) :
        Unconfigured(calls[i]) =>
            /\ Returned(calls[i]).success
            /\ Returned(calls[i]).events = <<>>
            /\ Truthy(Returned(calls[i]).error_message)

\* the sources run looks up in the cache
CacheableSources ==
    {S_Ticketmaster} \cup {SourceKey(VENUES[i]) : i \in {j \in 1..Len(VENUES) : ~SkipVenue(VENUES[j])}}

\* the cache has an entry of the source with success = true written on the day
HasFreshEntry(cache_, source_name, day) ==
    /\ cache_.t = "dict"
    /\ "sources" \in DOMAIN JVal(cache_)
    /\ JVal(cache_)["sources"].t = "dict"
    /\ source_name \in DOMAIN JVal(JVal(cache_)["sources"])
    /\ LET entry == JVal(JVal(cache_)["sources"])[source_name]
       IN  /\ entry.t = "dict"
           /\ "success" \in DOMAIN JVal(entry)
           /\ JVal(entry)["success"] = JBool(TRUE)
           /\ "fetched_date" \in DOMAIN JVal(entry)
           /\ JVal(entry)["fetched_date"] = JDate(day)

\* C5: when all sources have been processed, a cacheable source was served
\* from the cache, without a call of its adapter, exactly if the cache file
\* held an entry for it with success = true and fetched_date = today; with a
\* failed entry, an entry of another day or no entry its adapter was called.
C5_CacheHitIffFreshEntry ==
    pc = "dedup" =>
        \A source_name \in CacheableSources :
            LET fresh == HasFreshEntry(_load_cache(cache_file), source_name, today)
            IN  /\ fresh <=> (source_name \in from_cache /\ ~Fetched(source_name))
                /\ ~fresh => Fetched(source_name)

\* the entries of the manual sources in the sources map of a cache
ManualEntries(cache_) ==
    IF cache_.t = "dict" /\ "sources" \in DOMAIN JVal(cache_) /\ JVal(cache_)["sources"].t = "dict"
    THEN [k \in DOMAIN JVal(JVal(cache_)["sources"]) \cap {S_ManualSheet, S_ManualCSV, S_GoogleSheet} |->
            JVal(JVal(cache_)["sources"])[k]]
    ELSE <<>>

\* C6: whatever the cache file holds, a run that has ended has called the
\* manual adapter, and the sources map of the cache holds no entry of a manual
\* source that the cache file did not hold.
C6_ManualAlwaysFetched ==
    /\ pc \in {"done", "crashed"} => Fetched(S_GoogleSheet)
    /\ pc # "start" => ManualEntries(cache) = ManualEntries(_load_cache(cache_file))

\* C7: whatever the cache file holds, run does not end with an exception.
C7_CacheNeverEndsRun == pc # "crashed"

\* C8: a step of a run called with dry_run = true changes none of index.html,
\* log.json, build_time.txt and source_cache.json.
C8_DryRunWritesNothing == [][dry_run => (files' = files /\ cache_file' = cache_file)]_vars

\* a dry run has ended after it fetched from Ticketmaster and put the result
\* into the cache dict, the files being as they were
C8_Witness ==
    /\ pc = "done"
    /\ dry_run
    /\ Fetched(S_Ticketmaster)
    /\ HasFreshEntry(cache, S_Ticketmaster, today)
    /\ deduped # <<>>
    /\ files.index_html = "old"

\* ------------------------------------------------------------------------
\* Properties of deduplicate
\* ------------------------------------------------------------------------

\* the normalized artist names are equal, or one is contained in the other
ArtistEqualOrContained(a, b) ==
    LET na == _normalize(a)
        nb == _normalize(b)
    IN  na = nb \/ Contains(nb, na) \/ Contains(na, nb)

\* deduplicate was called with two reports of one show
PairOfDuplicates ==
    /\ dd_done
    /\ Len(dd_events) = 2
    /\ GroupKey(dd_events[1]) = GroupKey(dd_events[2])
    /\ ArtistEqualOrContained(dd_events[1].artist, dd_events[2].artist)

SameCluster(a, b) == GroupKey(a) = GroupKey(b) /\ _artists_match(a.artist, b.artist)

\* C10: the output of deduplicate holds no two events with the same date and
\* normalized venue whose artists satisfy _artists_match, and deduplicating
\* the output again returns it unchanged.
C10_OutputIsFixedPoint ==
    dd_done =>
        /\ \A i, j \in 1..Len(dd_result) : i < j => ~SameCluster(dd_result[i], dd_result[j])
        /\ deduplicate(dd_result) = dd_result

\* the orders one list can be given in
Orders(n) ==
    {f \in [1..n -> 1..n] : \A i, j \in 1..n : i # j => f[i] # f[j]}

Permuted(events, f) == [i \in 1..Len(events) |-> events[f[i]]]

\* the same event, or another report of the same show with the same score
SameSurvivor(a, b) ==
    \/ a = b
    \/ SameCluster(a, b) /\ _detail_score(a) = _detail_score(b)

\* C11: for every input list and every permutation of it, deduplicate returns
\* the same number of events, and the two outputs are equal as sets except
\* that the survivor of a cluster may be another report of equal detail score.
C11_PermutationSameClusters ==
    dd_done =>
        \A f \in Orders(Len(dd_events)) :
            LET other == deduplicate(Permuted(dd_events, f))
            IN  /\ Len(other) = Len(dd_result)
                /\ \A i \in 1..Len(dd_result) :
                       \E j \in 1..Len(other) : SameSurvivor(dd_result[i], other[j])
                /\ \A j \in 1..Len(other) :
                       \E i \in 1..Len(dd_result) : SameSurvivor(dd_result[i], other[j])

\* the date of an event and its venue as the spec normalizes it
DateAndVenue(e) == <<e.date, _normalize(e.venue)>>

\* an event with no other event of its date and venue in the input
AloneInGroup(i) ==
    \A k \in 1..Len(dd_events) : k # i => DateAndVenue(dd_events[k]) # DateAndVenue(dd_events[i])

\* C12: deduplicate never merges across dates or venues and never invents or
\* alters an event: every output event is one of the input events, every
\* (date, normalized venue) group of the input has an event in the output,
\* and an event alone in its group is in the output.
C12_NeverMergesAcrossGroups ==
    dd_done =>
        /\ \A j \in 1..Len(dd_result) : dd_result[j] \in Range(dd_events)
        /\ \A i \in 1..Len(dd_events) :
               \E j \in 1..Len(dd_result) : DateAndVenue(dd_result[j]) = DateAndVenue(dd_events[i])
        /\ \A i \in 1..Len(dd_events) : AloneInGroup(i) => dd_events[i] \in Range(dd_result)

\* three reports, two of one show merged into one, and a report of the same
\* artist at the same venue on another date kept beside it
C12_Witness ==
    /\ dd_done
    /\ Len(dd_events) = 3
    /\ Len(dd_result) = 2
    /\ \E i, j \in 1..3 :
           /\ dd_events[i].date # dd_events[j].date
           /\ _normalize(dd_events[i].venue) = _normalize(dd_events[j].venue)
           /\ _normalize(dd_events[i].artist) = _normalize(dd_events[j].artist)
           /\ AloneInGroup(j)
           /\ dd_events[j] \in Range(dd_result)

\* ------------------------------------------------------------------------
\* Properties of the venue normalizers
\* ------------------------------------------------------------------------

S_UnknownVenue == <<"U","n","k","n","o","w","n"," ","V","e","n","u","e">>

\* the canonical names of an alias table
CanonicalNames(table) == {table[i][2] : i \in 1..Len(table)}

\* the aliases of a table
Aliases(table) == {table[i][1] : i \in 1..Len(table)}

\* the call of fn has returned
Called(fn) == fn_done /\ fn_call.fn = fn

\* an empty or whitespace-only string
IsBlank(name) == Strip(name) = <<>>

\* C17: config.normalize_venue_name returns the fixed placeholder "Unknown
\* Venue" for an empty or whitespace-only input, and never the canonical name
\* of a registered venue.
C17_BlankNameIsPlaceholder ==
    (Called("normalize_venue_name") /\ IsBlank(fn_call.name)) =>
        /\ fn_result = S_UnknownVenue
        /\ fn_result \notin CanonicalNames(VENUE_ALIAS_MAP)

\* C18: scripts normalize_venue returns a non-empty string for every input
\* string; the empty string and a whitespace-only string fall back to the
\* sentinel "Unknown Venue".
C18_VenueNeverEmpty ==
    Called("normalize_venue") =>
        /\ fn_result # <<>>
        /\ IsBlank(fn_call.name) => fn_result = S_UnknownVenue

\* the normalizer the call is of, applied to a string
NormalizeAgain(x) ==
    IF fn_call.fn = "normalize_venue" THEN normalize_venue(x) ELSE normalize_venue_name(x)

\* the alias table of the normalizer the call is of
TableOfCall == IF fn_call.fn = "normalize_venue" THEN VENUE_ALIASES ELSE VENUE_ALIAS_MAP

\* C19: venue normalization is idempotent, normalize(normalize(x)) =
\* normalize(x), for scripts normalize_venue and for config
\* normalize_venue_name, and every canonical name of the alias table
\* normalizes to itself.
C19_NormalizeIdempotent ==
    (Called("normalize_venue") \/ Called("normalize_venue_name")) =>
        /\ NormalizeAgain(fn_result) = fn_result
        /\ fn_call.name \in CanonicalNames(TableOfCall) => fn_result = fn_call.name

\* the canonical names of the aliases that contain the string or are
\* contained in it
SubstringMatches(lookup) ==
    {VENUE_ALIASES[i][2] : i \in {j \in 1..Len(VENUE_ALIASES) :
        Contains(lookup, VENUE_ALIASES[j][1]) \/ Contains(VENUE_ALIASES[j][1], lookup)}}

\* C20: when the lowercased, trimmed input is not itself an alias, scripts
\* normalize_venue returns a canonical name whenever some alias is a
\* substring of the input or the input is a substring of some alias; only an
\* input with no such match is returned as the trimmed original. (Stated for
\* inputs that are not blank.)
C20_SubstringMatch ==
    (Called("normalize_venue") /\ ~IsBlank(fn_call.name)
        /\ Lower(Strip(fn_call.name)) \notin Aliases(VENUE_ALIASES)) =>
        LET matches == SubstringMatches(Lower(Strip(fn_call.name)))
        IN  IF matches # {} THEN fn_result \in matches
            ELSE fn_result = Strip(fn_call.name)

\* ------------------------------------------------------------------------
\* Properties of the classifiers
\* ------------------------------------------------------------------------

\* lowercase(artist + ' ' + raw_title) of the event of the call
CombinedText == Lower(fn_call.event.artist \o <<" ">> \o OrEmpty(fn_call.event.raw_title))

\* some keyword of the set occurs in the text
Occurs(keywords, text) == \E k \in keywords : Contains(text, k)

\* the keyword rule rejects the event of the call
KeywordRejected ==
    Occurs(NON_MUSIC_KEYWORDS, CombinedText) /\ ~Occurs(SCRIPTS_MUSIC_KEYWORDS, CombinedText)

\* C13: scripts _is_music_event returns false exactly when the source is not
\* manual ("Google Sheets", "Manual CSV"), the venue is not a music-only
\* venue, some non-music keyword occurs in lowercase(artist + ' ' +
\* raw_title) and no music keyword occurs in it; otherwise it returns true.
\* A manual source or a music-only venue overrides the keyword rule, a music
\* keyword rescues the event, and the sources Bandsintown and Ticketmaster
\* do not.
C13_RejectedIffKeywordRule ==
    Called("_is_music_event") =>
        (fn_result = FALSE <=>
            /\ fn_call.event.source \notin {<<"G","o","o","g","l","e"," ","S","h","e","e","t","s">>, <<"M","a","n","u","a","l"," ","C","S","V">>}
            /\ fn_call.event.venue \notin MUSIC_ONLY_VENUES
            /\ KeywordRejected)

\* an event of Bandsintown or Ticketmaster at a mixed venue was rejected by
\* the keyword rule
C13_Witness ==
    /\ Called("_is_music_event")
    /\ fn_call.event.source \in {<<"B","a","n","d","s","i","n","t","o","w","n">>, <<"T","i","c","k","e","t","m","a","s","t","e","r">>}
    /\ fn_call.event.venue \in MIXED_VENUES
    /\ KeywordRejected
    /\ fn_result = FALSE

\* the text config.is_music_event looks at
ClassifierText ==
    Lower(fn_call.title \o <<" ">> \o fn_call.category \o <<" ">> \o fn_call.description)

\* no rule of config.is_music_event matches the call
MatchesNoRule ==
    /\ ~Occurs(EXCLUDE_KEYWORDS, ClassifierText)
    /\ ~Occurs(MUSIC_KEYWORDS, ClassifierText)
    /\ ~Occurs(Aliases(VENUE_ALIAS_MAP), ClassifierText)
    /\ ~Occurs({<<"m","u","s","i","c">>, <<"c","o","n","c","e","r","t">>, <<"f","e","s","t","i","v","a","l","s">>, <<"n","i","g","h","t","l","i","f","e">>, <<"d","j">>}, Lower(fn_call.category))

\* C14: config.is_music_event accepts an event that matches no rule: no
\* non-music keyword, no music keyword and no known venue alias in its text,
\* and a category that is not a music category.
C14_DefaultAccepts ==
    (Called("is_music_event") /\ MatchesNoRule) => fn_result = TRUE

\* ------------------------------------------------------------------------
\* Properties of format_events_by_date
\* ------------------------------------------------------------------------

\* the number of calendar days of the window of the call
WindowDays ==
    IF fn_call.end_date > fn_call.start_date THEN fn_call.end_date - fn_call.start_date ELSE 0

\* the events of the call that fall on a day
OnDay(day) == {fn_call.events[i] : i \in {j \in 1..Len(fn_call.events) : fn_call.events[j].date[1] = day}}

\* C15: for every event list and every window of N >= 0 calendar days
\* [start_date, end_date), format_events_by_date returns exactly N buckets,
\* one per day of the window in ascending day order; a day without events
\* has an empty bucket.
C15_OneBucketPerDay ==
    Called("format_events_by_date") =>
        /\ Len(fn_result) = WindowDays
        /\ \A i \in 1..Len(fn_result) :
               /\ fn_result[i].display_key = Upper(strftime(fn_call.start_date + i - 1))
               /\ Range(fn_result[i].events) = OnDay(fn_call.start_date + i - 1)

\* an event with a non-empty time
Timed(e) == e.time # <<>> /\ e.time[1] # <<>>

\* a <= b on two str
StrLeq(a, b) == a = b \/ IntSeqLess(Ords(a), Ords(b))

\* a may stand before b in a bucket
InBucketOrder(a, b) ==
    IF Timed(a) /\ Timed(b)
    THEN \/ IntSeqLess(Ords(a.time[1]), Ords(b.time[1]))
         \/ a.time[1] = b.time[1] /\ StrLeq(Lower(a.artist), Lower(b.artist))
    ELSE IF Timed(a) THEN TRUE
    ELSE IF Timed(b) THEN FALSE
    ELSE StrLeq(Lower(a.artist), Lower(b.artist))

\* C16: within every bucket returned by format_events_by_date, every event
\* with a non-empty time precedes every event without one; timed events are
\* ordered by their time string and then by lowercased artist, untimed
\* events by lowercased artist.
C16_BucketOrder ==
    Called("format_events_by_date") =>
        \A b \in 1..Len(fn_result) :
            \A i, j \in 1..Len(fn_result[b].events) :
                i < j => InBucketOrder(fn_result[b].events[i], fn_result[b].events[j])

\* a bucket of three events given as untimed, timed, timed with the later
\* time first, returned with the timed ones first and by their time
C16_Witness ==
    /\ Called("format_events_by_date")
    /\ Len(fn_call.events) = 3
    /\ ~Timed(fn_call.events[1])
    /\ Timed(fn_call.events[2]) /\ Timed(fn_call.events[3])
    /\ IntSeqLess(Ords(fn_call.events[3].time[1]), Ords(fn_call.events[2].time[1]))
    /\ Len(fn_result) >= 1
    /\ fn_result[1].events = <<fn_call.events[3], fn_call.events[2], fn_call.events[1]>>

\* ------------------------------------------------------------------------
\* Properties of the scripts pipeline: deduplicate_events and run
\* ------------------------------------------------------------------------

\* C23: in the scripts pipeline (filter_music_events, deduplicate_events,
\* format_events_by_date), permuting the order in which the events arrive in
\* the candidate list does not change the date-bucketed output: the same
\* buckets hold the same events in the same order.
C23_ArrivalOrderIrrelevant ==
    Called("run") =>
        \A f \in Orders(Len(fn_call.all_events)) :
            Pipeline(Permuted(fn_call.all_events, f)) = fn_result

\* (date, lowercased venue, lowercased artist)
DateVenueArtist(e) == <<e.date, Ords(Lower(e.venue)), Ords(Lower(e.artist))>>

\* C24: deduplicate_events returns its result sorted ascending by (date,
\* lowercased venue, lowercased artist).
C24_SortedByDateVenueArtist ==
    Called("deduplicate_events") =>
        \A i, j \in 1..Len(fn_result) :
            i < j => ~KeyLess(DateVenueArtist(fn_result[j]), DateVenueArtist(fn_result[i]))

\* same date, same normalized venue, and the normalized artist of one
\* contained in that of the other
ContainedDuplicates(a, b) ==
    /\ a.date[1] = b.date[1]
    /\ _normalize_for_dedup(a.venue) = _normalize_for_dedup(b.venue)
    /\ \/ Contains(_normalize_for_dedup(a.artist), _normalize_for_dedup(b.artist))
       \/ Contains(_normalize_for_dedup(b.artist), _normalize_for_dedup(a.artist))

\* C25: deduplicate_events merges two events that have the same date and the
\* same normalized venue when the normalized artist of one is contained in
\* that of the other, leaving one event for the pair.
C25_ContainmentMerged ==
    Called("deduplicate_events") =>
        \A i, j \in 1..Len(fn_call.events) :
            (i < j /\ fn_call.events[i] # fn_call.events[j]
                /\ ContainedDuplicates(fn_call.events[i], fn_call.events[j]))
            => ~(fn_call.events[i] \in Range(fn_result) /\ fn_call.events[j] \in Range(fn_result))

\* the positions of the input events with the dedup key of position i
WithKeyOf(i) ==
    {j \in 1..Len(fn_call.events) :
        _make_dedup_key(fn_call.events[j]) = _make_dedup_key(fn_call.events[i])}

\* the earliest of the positions with the key of i whose event has the
\* highest score of them
EarliestBest(i) ==
    LET best == {j \in WithKeyOf(i) :
                    \A k \in WithKeyOf(i) :
                        _score_event(fn_call.events[j]) >= _score_event(fn_call.events[k])}
    IN  CHOOSE j \in best : \A k \in best : j <= k

\* C26: for every dedup key, the event deduplicate_events keeps is the
\* earliest in input order among the events with that key that attain the
\* maximum _score_event; a later duplicate of equal score never replaces an
\* earlier one.
C26_EarliestBestKept ==
    Called("deduplicate_events") =>
        /\ \A i \in 1..Len(fn_call.events) :
               fn_call.events[EarliestBest(i)] \in Range(fn_result)
        /\ \A r \in 1..Len(fn_result) :
               \E i \in 1..Len(fn_call.events) : fn_result[r] = fn_call.events[EarliestBest(i)]
        /\ Len(fn_result) = Cardinality({WithKeyOf(i) : i \in 1..Len(fn_call.events)})

\* three reports of one show, the first two different and of equal score,
\* the third of no higher score: the first is the one kept
C26_Witness ==
    /\ Called("deduplicate_events")
    /\ Len(fn_call.events) = 3
    /\ WithKeyOf(1) = {1, 2, 3}
    /\ fn_call.events[1] # fn_call.events[2]
    /\ _score_event(fn_call.events[1]) = _score_event(fn_call.events[2])
    /\ _score_event(fn_call.events[3]) <= _score_event(fn_call.events[1])
    /\ fn_result = <<fn_call.events[1]>>

\* the number of times an event stands in the buckets of the result
TimesInBuckets(e, day) ==
    LET Times(b) == Cardinality({k \in 1..Len(fn_result[b].events) : fn_result[b].events[k] = e})
        own == {b \in 1..Len(fn_result) :
                    fn_result[b].display_key = Upper(strftime(day)) /\ Times(b) > 0}
        others == {b \in 1..Len(fn_result) :
                    fn_result[b].display_key # Upper(strftime(day)) /\ Times(b) > 0}
    IN  [own |-> IF own = {} THEN 0 ELSE Times(CHOOSE b \in own : TRUE),
         elsewhere |-> others # {}]

\* the number of times an event stands in the input
TimesInInput(e) == Cardinality({i \in 1..Len(fn_call.events) : fn_call.events[i] = e})

\* C30: format_events_by_date neither loses, duplicates nor misplaces
\* events: every input event whose day lies in [start_date, end_date)
\* appears, once for each time it is in the input, in the bucket of its own
\* day and in no other; an event outside the window appears in no bucket;
\* no bucket holds an event that is not in the input.
C30_NoEventLostOrMisplaced ==
    Called("format_events_by_date") =>
        /\ \A i \in 1..Len(fn_call.events) :
               LET e == fn_call.events[i]
                   t == TimesInBuckets(e, e.date[1])
               IN  /\ ~t.elsewhere
                   /\ t.own = IF e.date[1] >= fn_call.start_date /\ e.date[1] < fn_call.end_date
                              THEN TimesInInput(e) ELSE 0
        /\ \A b \in 1..Len(fn_result) : Range(fn_result[b].events) \subseteq Range(fn_call.events)

\* ------------------------------------------------------------------------
\* Properties of the adapters of src/src/sources
\* ------------------------------------------------------------------------

\* C22: a SourceResult returned by an adapter carries an error_message only
\* if success is false or no events were found: a result with success = true
\* and at least one event has error_message unset (in particular
\* google_sheet.fetch after a failed sheet URL and a local CSV, and
\* venue_scrapers.fetch when only some venues failed).
C22_MessageOnlyOnFailureOrNoEvents ==
    (Called("google_sheet.fetch") \/ Called("venue_scrapers.fetch")) =>
        ((fn_result.success /\ fn_result.events_found > 0 /\ fn_result.events # <<>>)
            => fn_result.error_message = <<>>)


\* the rows of a table that have an artist and a date that parses into
\* lo..hi, in the order of the table
RowsWithArtistAndDate(rows, lo, hi) ==
    SelectSeq(rows, LAMBDA row : /\ row.cells >= 2
                                 /\ Strip(row.artist) # <<>>
                                 /\ row.date.t = "datestr"
                                 /\ lo <= JVal(row.date) /\ JVal(row.date) <= hi)

\* C21: a row of the manual table whose date does not parse or whose artist
\* is empty gives no event, and every other row with an artist and a date
\* that parses into the date range gives its event, in the order of the
\* table: the events of the fetch are, one for one, those rows.
C21_OtherRowsYieldEvents ==
    /\ Called("_fetch_from_google_sheets") =>
          LET rows == RowsWithArtistAndDate(fn_call.rows, get_date_range(0).tomorrow,
                                            get_date_range(0).end_date - 1)
          IN  /\ Len(fn_result) = Len(rows)
              /\ \A i \in 1..Len(rows) :
                    /\ fn_result[i].artist = Strip(rows[i].artist)
                    /\ fn_result[i].date = <<JVal(rows[i].date), 0>>
    /\ (Called("google_sheet.fetch") /\ fn_call.input.sheet_url
            /\ fn_call.input.sheet.kind = "csv") =>
          LET rows == RowsWithArtistAndDate(fn_call.input.sheet.rows, START_DATE(0),
                                            END_DATE(0))
          IN  /\ Len(fn_result.events) = Len(rows)
              /\ \A i \in 1..Len(rows) :
                    /\ fn_result.events[i].artist = Strip(rows[i].artist)
                    /\ fn_result.events[i].date = JVal(rows[i].date)

\* two events that differ in their source label and in nothing else
DifferOnlyInSource(a, b) ==
    /\ a.source # b.source
    /\ [a EXCEPT !.source = b.source] = b

\* a source label of the manual adapter: 'Manual (...)'
ManualSource(source) ==
    /\ Len(source) >= Len(S_Manual_open)
    /\ SubSeq(source, 1, Len(S_Manual_open)) = S_Manual_open

\* C27: when deduplicate is given two duplicates that differ only in their
\* source label, one from the manual source and one from Ticketmaster, in
\* either order, the manual one is the event that is kept.
C27_ManualKeptOverTicketmaster ==
    (/\ dd_done
     /\ Len(dd_events) = 2
     /\ DifferOnlyInSource(dd_events[1], dd_events[2])
     /\ \E i \in 1..2 : /\ ManualSource(dd_events[i].source)
                        /\ dd_events[3 - i].source = S_Ticketmaster)
        => \E i \in 1..2 : /\ ManualSource(dd_events[i].source)
                           /\ dd_result = <<dd_events[i]>>

\* the events of a list whose date lies in START_DATE..END_DATE, in order
InDateRange(events, day) ==
    SelectSeq(events, LAMBDA e : START_DATE(day) <= e.date /\ e.date <= END_DATE(day))

\* C29: _events_from_cache on an entry written by _cache_source_result
\* returns the events of the original result whose date lies in
\* START_DATE..END_DATE, in the same order and with equal artist, venue,
\* date, time, source and url, and the original events_found and
\* events_filtered.
C29_CacheRoundTrip ==
    Called("_events_from_cache") =>
        /\ ~Raised(fn_result)
        /\ fn_result.val.events = InDateRange(fn_call.result.events, 0)
        /\ fn_result.val.events_found = fn_call.result.events_found
        /\ fn_result.val.events_filtered = fn_call.result.events_filtered

\* a round trip through the persisted cache of a result with an event in the
\* date range that has a time and a url, one without them, and one outside
\* the range, where events_found and events_filtered are not the defaults
C29_Witness ==
    /\ Called("_events_from_cache")
    /\ fn_call.persisted
    /\ Len(fn_call.result.events) = 3
    /\ Len(fn_result.val.events) = 2
    /\ \E i, j \in 1..2 : /\ fn_result.val.events[i].time # NoneStr
                          /\ fn_result.val.events[i].url # NoneStr
                          /\ fn_result.val.events[j].time = NoneStr
    /\ fn_result.val.events_found = 5
    /\ fn_result.val.events_filtered = 1

\* the sources that a completed earlier execution of the day fetched with
\* success and saved in the cache
SavedToday ==
    UNION {runs[i].fetched : i \in {i \in 1..Len(runs) : runs[i].saved /\ runs[i].day = today}}

\* the sources that a completed execution of an earlier day fetched with
\* success and saved in the cache
SavedEarlier ==
    UNION {runs[i].fetched : i \in {i \in 1..Len(runs) : runs[i].saved /\ runs[i].day < today}}

\* the execution at hand is the first of its day
FirstRunOfDay == \A i \in 1..Len(runs) : runs[i].day < today

\* the adapter of the source has been called in the execution at hand
Invoked(source) == \E i \in 1..Len(calls) : calls[i].source = source

\* the execution at hand is past the section of the cacheable source
PastSectionOf(source) ==
    source = S_Ticketmaster /\ pc \notin {"start", "ticketmaster", "crashed"}

\* C28: once an execution in which the adapter of a cacheable source
\* returned success = true has completed and saved the cache, no later
\* execution of that day calls the adapter of the source, and the first
\* execution of a later day calls it again.
C28_FetchedOncePerDay ==
    /\ \A source \in SavedToday : ~Invoked(source)
    /\ FirstRunOfDay => \A source \in SavedEarlier :
                            /\ pc # "crashed"
                            /\ PastSectionOf(source) => Invoked(source)

\* a third execution, the first of day 1, has called the Ticketmaster
\* adapter again after the first execution of day 0 fetched Ticketmaster
\* with success and saved it and the second, of day 0 too, completed with
\* the result taken from the cache
C28_Witness ==
    /\ Len(runs) = 2
    /\ runs[1] = [day |-> 0, saved |-> TRUE, fetched |-> {S_Ticketmaster}]
    /\ runs[2] = [day |-> 0, saved |-> TRUE, fetched |-> {}]
    /\ today = 1
    /\ pc = "done"
    /\ Invoked(S_Ticketmaster)
====
